---- MODULE Spec2Model ----
(***************************************************************************)
(* cloudSQL: slotted-page heap table on a file-based page manager, and the *)
(* query executor's transaction control on top of it.                      *)
(*                                                                         *)
(* Pages are modelled byte for byte where the code addresses bytes: the    *)
(* line-pointer array and the tuple bodies live in one byte array, so a    *)
(* line pointer written behind the 64 reserved entries lands wherever the  *)
(* code puts it.  Characters are their ASCII codes.                        *)
(***************************************************************************)
EXTENDS Integers, Sequences, FiniteSets, TLC

(***************************************************************************)
(* Program constants                                                       *)
(***************************************************************************)
\* StorageManager::PAGE_SIZE (declared in storage_manager.hpp); the
\* specification allows 1024..65536, the model takes the smallest.
PAGE_SIZE == 1024
\* sizeof(PageHeader): free_space_offset and num_slots, both uint16_t
SizeofPageHeader == 4
\* the literal 64 in "sizeof(PageHeader) + (64 * sizeof(uint16_t))"
RESERVED_SLOTS == 64
\* sizeof(uint16_t), the width of one line pointer
SizeofSlot == 2
\* uint16_t arithmetic is modulo 2^16
U16 == 65536
\* the delimiter '|' of the textual tuple form
PIPE == 124

(***************************************************************************)
(* Bounds of the model                                                     *)
(***************************************************************************)
\* HeapTable::insert gives up ("diverges") after page MaxPageNum
MaxPageNum == 2
\* number of mutating calls (insert / remove / create) in one behaviour
MaxOps == 3
\* remove / get are tried on slots 0..MaxSlotInput and on the first slot
\* behind the reserved line-pointer area
MaxSlotInput == 1
\* length of the long text value that fills a page quickly
BigLen == 400
\* number of tuples inserted in one behaviour
MaxRows == 67
\* remove / get are tried on pages 0..MaxPageInput
MaxPageInput == 1
\* number of times the StorageManager is destroyed and constructed again
MaxRestarts == 1

(***************************************************************************)
(* common::Value, executor::Tuple, executor::Schema                        *)
(***************************************************************************)
\* A Value is a tagged union; i carries integers and booleans (0/1), s text.
Val(t, i, s) == [type |-> t, i |-> i, s |-> s]
make_null == Val("NULL", 0, <<>>)
make_int64(n) == Val("INT64", n, <<>>)
make_int32(n) == Val("INT32", n, <<>>)
make_bool(b) == Val("BOOL", IF b THEN 1 ELSE 0, <<>>)
make_text(s) == Val("TEXT", 0, s)

RECURSIVE DigitsOf(_)
DigitsOf(n) == IF n < 10 THEN <<48 + n>>
               ELSE Append(DigitsOf(n \div 10), 48 + (n % 10))

\* std::to_string of an integer
IntToString(n) == IF n < 0 THEN <<45>> \o DigitsOf(0 - n) ELSE DigitsOf(n)

StrNULL == <<78, 85, 76, 76>>
StrTRUE == <<84, 82, 85, 69>>
StrFALSE == <<70, 65, 76, 83, 69>>
StrOne == <<49>>

\* Value::to_string
Value_to_string(v) ==
    CASE v.type = "NULL" -> StrNULL
      [] v.type = "BOOL" -> IF v.i = 1 THEN StrTRUE ELSE StrFALSE
      [] v.type \in {"INT64", "INT32"} -> IntToString(v.i)
      [] OTHER -> v.s

IsDigit(c) == c >= 48 /\ c <= 57
IsSpace(c) == c = 32 \/ (c >= 9 /\ c <= 13)

RECURSIVE SkipSpace(_)
SkipSpace(s) == IF s # <<>> /\ IsSpace(Head(s)) THEN SkipSpace(Tail(s)) ELSE s

RECURSIVE DigitRun(_, _)
\* value and count of the leading decimal digits of s
DigitRun(s, acc) ==
    IF s # <<>> /\ IsDigit(Head(s))
    THEN DigitRun(Tail(s), [n |-> acc.n * 10 + (Head(s) - 48), k |-> acc.k + 1])
    ELSE acc

\* std::stoll: leading white space, an optional sign, then digits; trailing
\* characters are ignored; no digit at all throws std::invalid_argument.
stoll(item) ==
    LET s0  == SkipSpace(item)
        neg == s0 # <<>> /\ Head(s0) = 45
        s1  == IF s0 # <<>> /\ Head(s0) \in {43, 45} THEN Tail(s0) ELSE s0
        r   == DigitRun(s1, [n |-> 0, k |-> 0])
    IN  IF r.k = 0 THEN [throw |-> TRUE, val |-> make_null]
        ELSE [throw |-> FALSE, val |-> make_int64(IF neg THEN 0 - r.n ELSE r.n)]

(***************************************************************************)
(* Page images                                                             *)
(***************************************************************************)
\* A page image: the two header fields, and mem, the bytes from address
\* SizeofPageHeader on (every byte behind the end of mem is 0).
ZeroPage == [free_space_offset |-> 0, num_slots |-> 0, mem |-> <<>>]

ByteAt(p, addr) ==
    LET i == addr - SizeofPageHeader + 1
    IN  IF i >= 1 /\ i <= Len(p.mem) THEN p.mem[i] ELSE 0

Zeros(n) == [i \in 1..n |-> 0]

\* memcpy(buffer + addr, bytes, Len(bytes)); mem grows (by zeros) as far as
\* the copy reaches
Poke(mem, addr, bytes) ==
    LET i   == addr - SizeofPageHeader + 1
        end == i + Len(bytes) - 1
        m   == IF end > Len(mem) THEN mem \o Zeros(end - Len(mem)) ELSE mem
    IN  SubSeq(m, 1, i - 1) \o bytes \o SubSeq(m, end + 1, Len(m))

\* a uint16_t in memory, little endian
LE16(n) == <<n % 256, n \div 256>>

\* address of slots[i], with slots = buffer + sizeof(PageHeader)
SlotAddr(i) == SizeofPageHeader + i * SizeofSlot

\* slots[i]
SlotAt(p, i) == ByteAt(p, SlotAddr(i)) + 256 * ByteAt(p, SlotAddr(i) + 1)

\* index in mem of the first NUL at or after index i (Len(mem) + 1: behind it)
NulFrom(mem, i) ==
    CHOOSE j \in i..(Len(mem) + 1) :
        /\ (j = Len(mem) + 1 \/ mem[j] = 0)
        /\ \A k \in i..(j - 1) : mem[k] # 0

\* std::string s(buffer + addr): the bytes up to the first NUL
CStr(p, addr) ==
    LET i == addr - SizeofPageHeader + 1
    IN  SubSeq(p.mem, i, NulFrom(p.mem, i) - 1)

\* header->free_space_offset = sizeof(PageHeader) + 64 * sizeof(uint16_t);
\* header->num_slots = 0;  the bytes of the buffer stay as they are (zeros)
InitHeader(p) ==
    [free_space_offset |-> SizeofPageHeader + RESERVED_SLOTS * SizeofSlot,
     num_slots |-> 0,
     mem |-> IF Len(p.mem) < RESERVED_SLOTS * SizeofSlot
             THEN p.mem \o Zeros(RESERVED_SLOTS * SizeofSlot - Len(p.mem))
             ELSE p.mem]

(***************************************************************************)
(* StorageManager: sm = [disk, open]                                       *)
(*   disk[f] = [exists, pages]  the file in the data directory             *)
(*   open                      the keys of open_files_                     *)
(***************************************************************************)
FileNames == {"t.heap"}

NoFile == [exists |-> FALSE, pages |-> <<>>]

\* StorageManager::open_file: idempotent; creates the file when absent
open_file(sm, f) ==
    IF f \in sm.open THEN sm
    ELSE [disk |-> [sm.disk EXCEPT ![f].exists = TRUE],
          open |-> sm.open \cup {f}]

\* StorageManager::close_file
close_file(sm, f) ==
    IF f \notin sm.open THEN [ok |-> FALSE, sm |-> sm]
    ELSE [ok |-> TRUE, sm |-> [sm EXCEPT !.open = @ \ {f}]]

\* StorageManager::read_page: a page behind the end of the file reads as
\* zeros and the call still succeeds
StorageManager_read_page(sm, f, page_num) ==
    LET sm1 == open_file(sm, f)
        pgs == sm1.disk[f].pages
    IN  [ok |-> TRUE, sm |-> sm1,
         buf |-> IF page_num + 1 <= Len(pgs) THEN pgs[page_num + 1] ELSE ZeroPage]

\* StorageManager::write_page: positional write, flushed before returning;
\* writing behind the end of the file extends it with zero pages
StorageManager_write_page(sm, f, page_num, buf) ==
    LET sm1 == open_file(sm, f)
        pgs == sm1.disk[f].pages
        n   == IF page_num + 1 > Len(pgs) THEN page_num + 1 ELSE Len(pgs)
        new == [i \in 1..n |-> IF i = page_num + 1 THEN buf
                               ELSE IF i <= Len(pgs) THEN pgs[i] ELSE ZeroPage]
    IN  [ok |-> TRUE, sm |-> [sm1 EXCEPT !.disk[f].pages = new]]

(***************************************************************************)
(* HeapTable (heap_table.cpp): the table of file f with schema sch, a      *)
(* sequence of column types.  A TupleId is [page_num, slot_num].           *)
(***************************************************************************)
TupleId(p, s) == [page_num |-> p, slot_num |-> s]

\* TupleId::is_null
TupleId_is_null(tid) == tid.page_num = 0 /\ tid.slot_num = 0

\* the tuple's textual form: every value's to_string() followed by '|'
RECURSIVE Serialize(_)
Serialize(values) ==
    IF values = <<>> THEN <<>>
    ELSE Value_to_string(Head(values)) \o <<PIPE>> \o Serialize(Tail(values))

\* index of the first '|' of s at or after i, Len(s) + 1 when there is none
FirstPipe(s, i) ==
    CHOOSE j \in i..(Len(s) + 1) :
        /\ (j = Len(s) + 1 \/ s[j] = PIPE)
        /\ \A k \in i..(j - 1) : s[k] # PIPE

\* std::getline(ss, item, '|') on the unread rest s of the stream
Getline(s) ==
    IF s = <<>> THEN [ok |-> FALSE, item |-> <<>>, rest |-> <<>>]
    ELSE LET k == FirstPipe(s, 1)
         IN  [ok |-> TRUE, item |-> SubSeq(s, 1, k - 1),
              rest |-> SubSeq(s, k + 1, Len(s))]

\* the switch on col.type() in HeapTable::get (FLOAT64 columns are left out
\* of the model: TLA+ has no floating point)
ParseColumn(type, item) ==
    CASE type = "INT64" -> stoll(item)
      [] type = "BOOL" ->
            [throw |-> FALSE, val |-> make_bool(item = StrTRUE \/ item = StrOne)]
      [] OTHER -> [throw |-> FALSE, val |-> make_text(item)]

RECURSIVE ParseColumns(_, _, _, _)
\* the loop over the schema's columns in HeapTable::get
ParseColumns(sch, i, s, acc) ==
    IF i > Len(sch) THEN [status |-> "ok", values |-> acc]
    ELSE LET g == Getline(s)
         IN  IF ~g.ok THEN [status |-> "ok", values |-> acc]
             ELSE LET c == ParseColumn(sch[i], g.item)
                  IN  IF c.throw THEN [status |-> "throw", values |-> <<>>]
                      ELSE ParseColumns(sch, i + 1, g.rest, Append(acc, c.val))

NoTuple == [status |-> "none", values |-> <<>>]

\* HeapTable::get on a page image: status "ok" (true, with the tuple),
\* "none" (false) or "throw" (std::stoll threw)
GetFromPage(buf, sch, slot_num) ==
    IF buf.free_space_offset = 0 THEN NoTuple
    ELSE IF slot_num >= buf.num_slots THEN NoTuple
    ELSE LET offset == SlotAt(buf, slot_num)
         IN  IF offset = 0 THEN NoTuple
             ELSE ParseColumns(sch, 1, CStr(buf, offset), <<>>)

\* HeapTable::get
HeapTable_get(sm, f, sch, tid) ==
    LET r == StorageManager_read_page(sm, f, tid.page_num)
    IN  [sm |-> r.sm, res |-> GetFromPage(r.buf, sch, tid.slot_num)]

RECURSIVE InsertFrom(_, _, _, _)
\* HeapTable::insert from page page_num on: the first page on which the
\* tuple fits takes it.  The loop has no exit but success; the model stops
\* it behind page MaxPageNum with status "diverge".
InsertFrom(sm, f, tuple, page_num) ==
    IF page_num > MaxPageNum
    THEN [status |-> "diverge", sm |-> sm, tid |-> TupleId(0, 0)]
    ELSE
    LET r      == StorageManager_read_page(sm, f, page_num)
        header == IF r.buf.free_space_offset = 0 THEN InitHeader(r.buf) ELSE r.buf
        data   == Serialize(tuple)
        required == (Len(data) + 1) % U16
        slot_array_end == (SizeofPageHeader + (header.num_slots + 1) * SizeofSlot) % U16
    IN  IF header.free_space_offset + required < PAGE_SIZE
           /\ slot_array_end < header.free_space_offset
        THEN LET offset == header.free_space_offset
                 body   == Poke(header.mem, offset, data \o <<0>>)
                 slots  == Poke(body, SlotAddr(header.num_slots), LE16(offset))
                 buf    == [free_space_offset |-> (offset + required) % U16,
                            num_slots |-> (header.num_slots + 1) % U16,
                            mem |-> slots]
                 w      == StorageManager_write_page(r.sm, f, page_num, buf)
             IN  [status |-> "ok", sm |-> w.sm,
                  tid |-> TupleId(page_num, header.num_slots)]
        ELSE InsertFrom(r.sm, f, tuple, page_num + 1)

HeapTable_insert(sm, f, tuple) == InsertFrom(sm, f, tuple, 0)

\* HeapTable::remove: zero the line pointer, whatever it held
HeapTable_remove(sm, f, tid) ==
    LET r == StorageManager_read_page(sm, f, tid.page_num)
    IN  IF r.buf.free_space_offset = 0 THEN [ok |-> FALSE, sm |-> r.sm]
        ELSE IF tid.slot_num >= r.buf.num_slots THEN [ok |-> FALSE, sm |-> r.sm]
        ELSE LET buf == [r.buf EXCEPT !.mem =
                            Poke(@, SlotAddr(tid.slot_num), LE16(0))]
                 w   == StorageManager_write_page(r.sm, f, tid.page_num, buf)
             IN  [ok |-> w.ok, sm |-> w.sm]

\* HeapTable::create: open the file and write an initialised page 0
HeapTable_create(sm, f) ==
    StorageManager_write_page(open_file(sm, f), f, 0, InitHeader(ZeroPage))

RECURSIVE CountFrom(_, _, _)
\* HeapTable::tuple_count: the non-zero line pointers of every page up to
\* the first uninitialised one
CountFrom(sm, f, page_num) ==
    LET buf == StorageManager_read_page(sm, f, page_num).buf
    IN  IF buf.free_space_offset = 0 THEN 0
        ELSE Cardinality({i \in 0..(buf.num_slots - 1) : SlotAt(buf, i) # 0})
             + CountFrom(sm, f, page_num + 1)

HeapTable_tuple_count(sm, f) == CountFrom(sm, f, 0)

(***************************************************************************)
(* HeapTable::Iterator: it = [current_id_, eof_]                           *)
(***************************************************************************)
\* Iterator::Iterator: the scan starts at page 0, slot 0
NewIterator == [current_id_ |-> TupleId(0, 0), eof_ |-> FALSE]

RECURSIVE IterLoop(_, _, _, _, _)
\* the while (true) of Iterator::next; fuel bounds the number of rounds the
\* model follows ("diverge" when it runs out)
IterLoop(sm, f, sch, id, fuel) ==
    IF fuel = 0
    THEN [status |-> "diverge", it |-> [current_id_ |-> id, eof_ |-> FALSE],
          tid |-> id, values |-> <<>>]
    ELSE
    LET g   == HeapTable_get(sm, f, sch, id).res
        buf == StorageManager_read_page(sm, f, id.page_num).buf
        nxt == StorageManager_read_page(sm, f, id.page_num + 1).buf
    IN  IF g.status = "throw"
        THEN [status |-> "throw", it |-> [current_id_ |-> id, eof_ |-> FALSE],
              tid |-> id, values |-> <<>>]
        ELSE IF g.status = "ok"
        THEN [status |-> "ok",
              it |-> [current_id_ |-> TupleId(id.page_num, id.slot_num + 1),
                      eof_ |-> FALSE],
              tid |-> id, values |-> g.values]
        ELSE IF id.slot_num < buf.num_slots
        THEN IterLoop(sm, f, sch, TupleId(id.page_num, id.slot_num + 1), fuel - 1)
        ELSE IF nxt.free_space_offset = 0
        THEN [status |-> "end",
              it |-> [current_id_ |-> TupleId(id.page_num + 1, 0), eof_ |-> TRUE],
              tid |-> id, values |-> <<>>]
        ELSE IterLoop(sm, f, sch, TupleId(id.page_num + 1, 0), fuel - 1)

\* number of slots and pages of the file: more rounds than a scan can need
RECURSIVE SlotTotal(_, _)
SlotTotal(pgs, i) ==
    IF i > Len(pgs) THEN 0 ELSE pgs[i].num_slots + 1 + SlotTotal(pgs, i + 1)

ScanFuel(sm, f) == SlotTotal(sm.disk[f].pages, 1) + 2

\* Iterator::next: status "ok" (true, with the tuple; tid is its address),
\* "end" (false), "throw", or "diverge"
Iterator_next(sm, f, sch, it) ==
    IF it.eof_ THEN [status |-> "end", it |-> it, tid |-> it.current_id_,
                     values |-> <<>>]
    ELSE IterLoop(sm, f, sch, it.current_id_, ScanFuel(sm, f))

RECURSIVE ScanFrom(_, _, _, _, _)
\* a full scan: next() until it returns false; rows are [tid, values]
ScanFrom(sm, f, sch, it, rows) ==
    LET n == Iterator_next(sm, f, sch, it)
    IN  IF n.status = "ok"
        THEN ScanFrom(sm, f, sch, n.it, Append(rows, [tid |-> n.tid, values |-> n.values]))
        ELSE [status |-> n.status, rows |-> rows]

FullScan(sm, f, sch) == ScanFrom(sm, f, sch, NewIterator, <<>>)

(***************************************************************************)
(* Catalog: [tables_, next_oid_]; tables_ is the set of TableInfo          *)
(***************************************************************************)
\* oid_t is uint32_t, held as its two 16-bit halves: [hi, lo] is hi * 2^16 + lo
oid_t(hi, lo) == [hi |-> hi, lo |-> lo]

\* next_oid_++ : the value after the increment, modulo 2^32
Oid_inc(o) ==
    IF o.lo = U16 - 1 THEN oid_t((o.hi + 1) % U16, 0) ELSE oid_t(o.hi, o.lo + 1)

\* a < b on oid_t
Oid_lt(a, b) == a.hi < b.hi \/ (a.hi = b.hi /\ a.lo < b.lo)

\* Catalog::Catalog
NewCatalog == [tables_ |-> {}, next_oid_ |-> oid_t(0, 1)]

\* Catalog::create_table: a new TableInfo under the next oid, in the place of
\* any entry the map has under that oid; no check of the name
Catalog_create_table(c, table_name, columns) ==
    [cat |-> [tables_ |-> {t \in c.tables_ : t.table_id # c.next_oid_}
                          \cup {[table_id |-> c.next_oid_,
                                 name |-> table_name,
                                 columns |-> columns,
                                 indexes |-> <<>>]},
              next_oid_ |-> Oid_inc(c.next_oid_)],
     table_id |-> c.next_oid_]

\* Catalog::drop_table
Catalog_drop_table(c, table_id) ==
    [c EXCEPT !.tables_ = {t \in @ : t.table_id # table_id}]

\* Catalog::get_table
Catalog_get_table(c, table_id) ==
    IF \E t \in c.tables_ : t.table_id = table_id
    THEN [has_value |-> TRUE, table |-> CHOOSE t \in c.tables_ : t.table_id = table_id]
    ELSE [has_value |-> FALSE, table |-> [table_id |-> oid_t(0, 0)]]

\* Catalog::create_index: 0 for a table the catalog lacks; else a new
\* IndexInfo under the next oid at the end of the indexes of the table
Catalog_create_index(c, index_name, table_id) ==
    LET table == Catalog_get_table(c, table_id)
    IN  IF ~table.has_value THEN [cat |-> c, index_id |-> oid_t(0, 0)]
        ELSE [cat |-> [tables_ |-> (c.tables_ \ {table.table})
                                   \cup {[table.table EXCEPT !.indexes =
                                             Append(@, [index_id |-> c.next_oid_,
                                                        name |-> index_name,
                                                        table_id |-> table_id])]},
                       next_oid_ |-> Oid_inc(c.next_oid_)],
              index_id |-> c.next_oid_]

\* the tables an index of that oid is in
Holders(c, index_id) ==
    {t \in c.tables_ : \E i \in 1..Len(t.indexes) : t.indexes[i].index_id = index_id}

\* Catalog::drop_index: the first index of that oid is erased from the first
\* table the map yields that has one, `holder`; false when no table has one
Catalog_drop_index(c, index_id, holder) ==
    LET at == CHOOSE i \in 1..Len(holder.indexes) :
                 /\ holder.indexes[i].index_id = index_id
                 /\ \A j \in 1..(i - 1) : holder.indexes[j].index_id # index_id
    IN  IF holder \notin Holders(c, index_id) THEN [cat |-> c, res |-> FALSE]
        ELSE [cat |-> [c EXCEPT !.tables_ =
                          (@ \ {holder})
                          \cup {[holder EXCEPT !.indexes =
                                    SubSeq(@, 1, at - 1) \o SubSeq(@, at + 1, Len(@))]}],
              res |-> TRUE]

\* Catalog::get_table_by_name: the first entry of that name the map yields
\* (the sessions below create no name twice, so there is at most one)
Catalog_get_table_by_name(c, table_name) ==
    LET found == {t \in c.tables_ : t.name = table_name}
    IN  IF found = {} THEN [has_value |-> FALSE, columns |-> <<>>]
        ELSE [has_value |-> TRUE,
              columns |-> (CHOOSE t \in found :
                              \A u \in found : ~Oid_lt(u.table_id, t.table_id)).columns]

(***************************************************************************)
(* TransactionManager and Transaction: tm = [next_id, txns], txns[id] =    *)
(* [id, state, snapshot, undo_log]; snapshot stands for start_ts: the      *)
(* transactions committed when this one began.  LockManager: a set of      *)
(* [key, owner].                                                           *)
(***************************************************************************)
NewTransactionManager == [next_id |-> 1, txns |-> <<>>]

Committed(m) == {i \in 1..Len(m.txns) : m.txns[i].state = "Committed"}

\* TransactionManager::begin: a fresh Active transaction under the next id
TransactionManager_begin(m) ==
    [tm |-> [next_id |-> m.next_id + 1,
             txns |-> Append(m.txns, [id |-> m.next_id, state |-> "Active",
                                      snapshot |-> Committed(m),
                                      undo_log |-> <<>>])],
     txn |-> m.next_id]

\* Transaction::add_undo_log
add_undo_log(m, txn, type, table_name, rid) ==
    [m EXCEPT !.txns[txn].undo_log =
        Append(@, [type |-> type, table_name |-> table_name, rid |-> rid])]

\* LockManager::acquire_exclusive: granted unless another transaction holds
\* the key (fail fast)
acquire_exclusive(lk, txn, key) ==
    IF \E l \in lk : l.key = key /\ l.owner # txn
    THEN [ok |-> FALSE, locks |-> lk]
    ELSE [ok |-> TRUE, locks |-> lk \cup {[key |-> key, owner |-> txn]}]

\* release of every lock of a transaction at its end
release_all(lk, txn) == {l \in lk : l.owner # txn}

\* the file of a table (HeapTable::HeapTable: filename_)
filename_(table_name) == table_name \o ".heap"

\* TransactionManager::commit: Committed, undo log cleared, locks released.
\* e = [sm, catalog, tm, locks, versions]
TransactionManager_commit(e, txn) ==
    [e EXCEPT !.tm.txns[txn].state = "Committed",
              !.tm.txns[txn].undo_log = <<>>,
              !.locks = release_all(@, txn)]

RECURSIVE UndoFrom(_, _, _)
\* the undo log replayed from entry k down to entry 1: Insert-undo
\* tombstones the inserted tid; Delete-undo clears the xmax of the tid and
\* Update-undo resurrects the old chain, and the page format of
\* HeapTable::insert keeps neither an xmax nor a chain, so these two leave
\* the page as it is
UndoFrom(m, log, k) ==
    IF k = 0 THEN m
    ELSE LET u == log[k]
         IN  IF u.type = "INSERT"
             THEN UndoFrom(HeapTable_remove(m, filename_(u.table_name), u.rid).sm,
                           log, k - 1)
             ELSE UndoFrom(m, log, k - 1)

\* TransactionManager::abort: the undo log replayed in reverse, Aborted,
\* locks released
TransactionManager_abort(e, txn) ==
    [e EXCEPT !.sm = UndoFrom(@, e.tm.txns[txn].undo_log,
                              Len(e.tm.txns[txn].undo_log)),
              !.tm.txns[txn].state = "Aborted",
              !.locks = release_all(@, txn)]

(***************************************************************************)
(* QueryExecutor.  e = [sm, catalog, tm, locks, versions] is what the      *)
(* executors share; a statement is [type, table, values, columns,          *)
(* set_clauses]; an execute_* yields [e, result, throw], throw for an      *)
(* exception leaving it                                                    *)
(***************************************************************************)
QueryResult == [error |-> FALSE, msg |-> "", rows |-> <<>>, rows_affected |-> 0]

set_error(msg) == [QueryResult EXCEPT !.error = TRUE, !.msg = msg]

Returns(e, result) == [e |-> e, result |-> result, throw |-> FALSE]

Throws(e) == [e |-> e, result |-> QueryResult, throw |-> TRUE]

\* the column type execute_create_table gives a declared type
ColumnType(type_) ==
    CASE type_ \in {"INT", "INTEGER"} -> "INT32"
      [] type_ = "BIGINT" -> "INT64"
      [] type_ \in {"FLOAT", "DOUBLE"} -> "FLOAT64"
      [] type_ \in {"BOOLEAN", "BOOL"} -> "BOOL"
      [] OTHER -> "TEXT"

\* QueryExecutor::execute_create_table
execute_create_table(e, stmt) ==
    LET catalog_cols == [i \in 1..Len(stmt.columns) |-> ColumnType(stmt.columns[i])]
        c == Catalog_create_table(e.catalog, stmt.table, catalog_cols)
        w == HeapTable_create(e.sm, filename_(stmt.table))
    IN  IF c.table_id = oid_t(0, 0)
        THEN Returns(e, set_error("Failed to create table in catalog"))
        ELSE IF ~w.ok
        THEN Returns([e EXCEPT !.sm = w.sm,
                               !.catalog = Catalog_drop_table(c.cat, c.table_id)],
                     set_error("Failed to create table file"))
        ELSE Returns([e EXCEPT !.sm = w.sm, !.catalog = c.cat],
                     [QueryResult EXCEPT !.rows_affected = 1])

\* the lock key of execute_insert: page and slot, without the table
LockKey(tid) == <<tid.page_num, tid.slot_num>>

RECURSIVE InsertRows(_, _, _, _, _)
\* the loop of execute_insert over the rows of VALUES
InsertRows(e, table_name, rows, txn, rows_inserted) ==
    IF rows = <<>>
    THEN Returns(e, [QueryResult EXCEPT !.rows_affected = rows_inserted])
    ELSE LET r  == HeapTable_insert(e.sm, filename_(table_name), Head(rows))
             e1 == [e EXCEPT !.sm = r.sm,
                             !.versions = Append(@, [table |-> table_name,
                                                     tid |-> r.tid,
                                                     values |-> Head(rows),
                                                     xmin |-> txn, xmax |-> 0])]
             l  == acquire_exclusive(e.locks, txn, LockKey(r.tid))
             e2 == [e1 EXCEPT !.tm = add_undo_log(@, txn, "INSERT", table_name, r.tid),
                              !.locks = l.locks]
         IN  IF txn = 0 THEN InsertRows(e1, table_name, Tail(rows), txn, rows_inserted + 1)
             ELSE IF ~l.ok THEN Throws(e2)
             ELSE InsertRows(e2, table_name, Tail(rows), txn, rows_inserted + 1)

\* QueryExecutor::execute_insert
execute_insert(e, stmt, txn) ==
    IF ~Catalog_get_table_by_name(e.catalog, stmt.table).has_value
    THEN Returns(e, set_error("Table not found"))
    ELSE InsertRows(e, stmt.table, stmt.values, txn, 0)

(***************************************************************************)
(* Values in expressions: comparison within a family, truth, numbers.      *)
(* A FLOAT64 carries its number in i; the sums below are sums of integers. *)
(***************************************************************************)
make_float64(n) == Val("FLOAT64", n, <<>>)

\* Value::is_numeric
Value_is_numeric(v) == v.type \in {"INT32", "INT64", "FLOAT64"}

\* Value::to_float64 of a numeric value
Value_to_float64(v) == v.i

\* Value::as_bool: only the Bool true is true; Null is not
Value_as_bool(v) == v.type = "BOOL" /\ v.i = 1

\* std::string's operator<: lexicographic on the bytes
StrLess(a, b) ==
    \E k \in 1..Len(b) :
        /\ \A j \in 1..(k - 1) : j <= Len(a) /\ a[j] = b[j]
        /\ (k > Len(a) \/ a[k] < b[k])

\* Value::operator<: total within the numeric, the text and the boolean
\* family; never true across families or against Null
Value_lt(a, b) ==
    IF Value_is_numeric(a) /\ Value_is_numeric(b) THEN a.i < b.i
    ELSE IF a.type = "TEXT" /\ b.type = "TEXT" THEN StrLess(a.s, b.s)
    ELSE IF a.type = "BOOL" /\ b.type = "BOOL" THEN a.i < b.i
    ELSE FALSE

\* Value::operator==, likewise
Value_eq(a, b) ==
    IF Value_is_numeric(a) /\ Value_is_numeric(b) THEN a.i = b.i
    ELSE IF a.type = "TEXT" /\ b.type = "TEXT" THEN a.s = b.s
    ELSE IF a.type = "BOOL" /\ b.type = "BOOL" THEN a.i = b.i
    ELSE FALSE

(***************************************************************************)
(* parser::Expression: [kind, ...].  A schema is the sequence of its       *)
(* column names; the columns of a table are named c1, c2, ... by position. *)
(***************************************************************************)
ColumnExpr(name) == [kind |-> "Column", name |-> name]
ConstantExpr(value) == [kind |-> "Constant", value |-> value]
BinaryExpr(left, op, right) ==
    [kind |-> "Binary", op |-> op, left |-> left, right |-> right]
FunctionExpr(name, arg) == [kind |-> "Function", name |-> name, args |-> <<arg>>]

ColumnNames == <<"c1", "c2", "c3">>

\* the Schema build_plan constructs from the catalog's columns
TableSchema(columns) == [i \in 1..Len(columns) |-> ColumnNames[i]]

\* Expression::to_string of a column reference and of a function call on
\* one; the other kinds name no column of any schema below
Expression_to_string(x) ==
    CASE x.kind = "Column" -> x.name
      [] x.kind = "Function" /\ x.args[1].kind = "Column" ->
            x.name \o "(" \o x.args[1].name \o ")"
      [] OTHER -> "?"

\* Schema::find_column: the position of the column of that name, 0 for none
find_column(sch, name) ==
    IF \E k \in 1..Len(sch) : sch[k] = name
    THEN CHOOSE k \in 1..Len(sch) : sch[k] = name /\ \A j \in 1..(k - 1) : sch[j] # name
    ELSE 0

\* the value of the column of that name in the tuple, Null when unresolved
ColumnValue(tuple, sch, name) ==
    LET k == find_column(sch, name)
    IN  IF k = 0 \/ k > Len(tuple) THEN make_null ELSE tuple[k]

\* BinaryExpr::evaluate on the values of its operands
BinaryExpr_apply(op, left_val, right_val) ==
    CASE op = "Eq" -> make_bool(Value_eq(left_val, right_val))
      [] op = "Lt" -> make_bool(Value_lt(left_val, right_val))
      [] op = "Gt" -> make_bool(Value_lt(right_val, left_val))
      [] op = "And" -> make_bool(Value_as_bool(left_val) /\ Value_as_bool(right_val))
      [] op = "Or" -> make_bool(Value_as_bool(left_val) \/ Value_as_bool(right_val))
      [] op = "Plus" ->
            IF left_val.type = "FLOAT64" \/ right_val.type = "FLOAT64"
            THEN make_float64(Value_to_float64(left_val) + Value_to_float64(right_val))
            ELSE make_int64(left_val.i + right_val.i)
      [] OTHER -> make_null

RECURSIVE Expression_evaluate(_, _, _)
\* Expression::evaluate(tuple, schema).  A function call above an
\* AggregateOperator names the aggregate's column; elsewhere an aggregate
\* function is the identity on its argument.
Expression_evaluate(x, tuple, sch) ==
    CASE x.kind = "Constant" -> x.value
      [] x.kind = "Column" -> ColumnValue(tuple, sch, x.name)
      [] x.kind = "Function" ->
            IF find_column(sch, Expression_to_string(x)) # 0
            THEN ColumnValue(tuple, sch, Expression_to_string(x))
            ELSE Expression_evaluate(x.args[1], tuple, sch)
      [] x.kind = "Binary" ->
            BinaryExpr_apply(x.op, Expression_evaluate(x.left, tuple, sch),
                             Expression_evaluate(x.right, tuple, sch))
      [] OTHER -> make_null

\* the version a remove(rid, xmax) ends: the open one at rid
MarkRemoved(vs, table_name, rid, xmax) ==
    [k \in 1..Len(vs) |->
        IF vs[k].table = table_name /\ vs[k].tid = rid /\ vs[k].xmax = 0
        THEN [vs[k] EXCEPT !.xmax = xmax] ELSE vs[k]]

\* phase 1 of execute_delete and execute_update: of the tuples the scan
\* yields, those on which the WHERE is true as a bool; all without a WHERE
Matching(rows, sch, where) ==
    SelectSeq(rows, LAMBDA r :
        where.kind = "none" \/ Value_as_bool(Expression_evaluate(where, r.values, sch)))

\* target_rids of execute_delete
TargetRids(rows) == [k \in 1..Len(rows) |-> rows[k].tid]

RECURSIVE ApplyDeletions(_, _, _, _, _)
\* phase 2 of execute_delete
ApplyDeletions(e, table_name, target_rids, txn, rows_deleted) ==
    IF target_rids = <<>>
    THEN Returns(e, [QueryResult EXCEPT !.rows_affected = rows_deleted])
    ELSE LET rid == Head(target_rids)
             r   == HeapTable_remove(e.sm, filename_(table_name), rid)
             e1  == [e EXCEPT !.sm = r.sm,
                              !.versions = MarkRemoved(@, table_name, rid, txn)]
             e2  == IF txn = 0 THEN e1
                    ELSE [e1 EXCEPT !.tm = add_undo_log(@, txn, "DELETE", table_name, rid)]
         IN  IF r.ok
             THEN ApplyDeletions(e2, table_name, Tail(target_rids), txn, rows_deleted + 1)
             ELSE ApplyDeletions([e EXCEPT !.sm = r.sm], table_name,
                                 Tail(target_rids), txn, rows_deleted)

\* QueryExecutor::execute_delete: phase 1 scans the table and collects the
\* rid of every matching tuple, phase 2 removes them
execute_delete(e, stmt, txn) ==
    LET table_meta == Catalog_get_table_by_name(e.catalog, stmt.table)
        f    == filename_(stmt.table)
        iter == FullScan(e.sm, f, table_meta.columns)
        e1   == [e EXCEPT !.sm = open_file(@, f)]
    IN  IF ~table_meta.has_value THEN Returns(e, set_error("Table not found"))
        ELSE IF iter.status = "throw" THEN Throws(e1)
        ELSE ApplyDeletions(e1, stmt.table,
                            TargetRids(Matching(iter.rows, TableSchema(table_meta.columns),
                                                stmt.where)),
                            txn, 0)

RECURSIVE SetFrom(_, _, _, _, _)
\* the loop over the SET clauses from clause k on: each value is evaluated
\* on the tuple the scan yielded and set in the new tuple, where the schema
\* has the column
SetFrom(new_tuple, tuple, sch, set_clauses, k) ==
    IF k > Len(set_clauses) THEN new_tuple
    ELSE LET idx == find_column(sch, Expression_to_string(set_clauses[k].col))
         IN  SetFrom(IF idx # 0 /\ idx <= Len(new_tuple)
                     THEN [new_tuple EXCEPT ![idx] =
                              Expression_evaluate(set_clauses[k].val, tuple, sch)]
                     ELSE new_tuple,
                     tuple, sch, set_clauses, k + 1)

\* the new tuple of an UPDATE: the old one with the SET values put in
SetColumns(tuple, sch, set_clauses) == SetFrom(tuple, tuple, sch, set_clauses, 1)

\* updates of execute_update: rid and new tuple of every matching tuple
UpdateOps(rows, sch, set_clauses) ==
    [k \in 1..Len(rows) |->
        [rid |-> rows[k].tid,
         new_tuple |-> SetColumns(rows[k].values, sch, set_clauses)]]

RECURSIVE ApplyUpdates(_, _, _, _, _)
\* phase 2 of execute_update: remove the old version, insert the new one
ApplyUpdates(e, table_name, updates, txn, rows_updated) ==
    IF updates = <<>>
    THEN Returns(e, [QueryResult EXCEPT !.rows_affected = rows_updated])
    ELSE LET op == Head(updates)
             f  == filename_(table_name)
             r  == HeapTable_remove(e.sm, f, op.rid)
             n  == HeapTable_insert(r.sm, f, op.new_tuple)
             e1 == [e EXCEPT !.sm = n.sm,
                             !.versions = Append(MarkRemoved(@, table_name, op.rid, txn),
                                                 [table |-> table_name, tid |-> n.tid,
                                                  values |-> op.new_tuple,
                                                  xmin |-> txn, xmax |-> 0])]
             e2 == IF txn = 0 THEN e1
                   ELSE [e1 EXCEPT !.tm =
                            add_undo_log(add_undo_log(@, txn, "UPDATE", table_name, op.rid),
                                         txn, "INSERT", table_name, n.tid)]
         IN  IF r.ok
             THEN ApplyUpdates(e2, table_name, Tail(updates), txn, rows_updated + 1)
             ELSE ApplyUpdates([e EXCEPT !.sm = r.sm], table_name, Tail(updates),
                               txn, rows_updated)

\* QueryExecutor::execute_update: phase 1 scans the table and collects rid
\* and new tuple of every matching tuple, phase 2 applies them
execute_update(e, stmt, txn) ==
    LET table_meta == Catalog_get_table_by_name(e.catalog, stmt.table)
        f    == filename_(stmt.table)
        iter == FullScan(e.sm, f, table_meta.columns)
        e1   == [e EXCEPT !.sm = open_file(@, f)]
    IN  IF ~table_meta.has_value THEN Returns(e, set_error("Table not found"))
        ELSE IF iter.status = "throw" THEN Throws(e1)
        ELSE ApplyUpdates(e1, stmt.table,
                          UpdateOps(Matching(iter.rows, TableSchema(table_meta.columns),
                                             stmt.where),
                                    TableSchema(table_meta.columns), stmt.set_clauses),
                          txn, 0)

(***************************************************************************)
(* The operators of operator.cpp, each as the sequence of tuples its next  *)
(* yields from open to the first false, given the tuples of its child.     *)
(* A relation is [rows, sch]: the tuples and the output schema.            *)
(***************************************************************************)
\* FilterOperator::next: the child's tuples on which the condition's value
\* is true as a bool
FilterOperator(child, condition) ==
    [rows |-> SelectSeq(child.rows,
                  LAMBDA t : Value_as_bool(Expression_evaluate(condition, t, child.sch))),
     sch |-> child.sch]

RECURSIVE SortCompare(_, _, _, _, _, _)
\* the comparator SortOperator::open hands to std::stable_sort, from key i on
SortCompare(a, b, sch, sort_keys, ascending, i) ==
    IF i > Len(sort_keys) THEN FALSE
    ELSE IF Value_lt(Expression_evaluate(sort_keys[i], a, sch),
                     Expression_evaluate(sort_keys[i], b, sch)) THEN ascending[i]
    ELSE IF Value_lt(Expression_evaluate(sort_keys[i], b, sch),
                     Expression_evaluate(sort_keys[i], a, sch)) THEN ~ascending[i]
    ELSE SortCompare(a, b, sch, sort_keys, ascending, i + 1)

\* t put into a sorted sequence before the first tuple it is less than
InsertSorted(sorted, t, sch, sort_keys, ascending) ==
    LET after == {k \in 1..Len(sorted) :
                     SortCompare(t, sorted[k], sch, sort_keys, ascending, 1)}
        at    == IF after = {} THEN Len(sorted) + 1
                 ELSE CHOOSE k \in after : \A j \in after : k <= j
    IN  SubSeq(sorted, 1, at - 1) \o <<t>> \o SubSeq(sorted, at, Len(sorted))

RECURSIVE stable_sort(_, _, _, _)
\* std::stable_sort: sorted by the comparator, equal tuples in input order
stable_sort(tuples, sch, sort_keys, ascending) ==
    IF tuples = <<>> THEN <<>>
    ELSE InsertSorted(stable_sort(SubSeq(tuples, 1, Len(tuples) - 1),
                                  sch, sort_keys, ascending),
                      tuples[Len(tuples)], sch, sort_keys, ascending)

\* SortOperator::open and next
SortOperator(child, sort_keys, ascending) ==
    [rows |-> stable_sort(child.rows, child.sch, sort_keys, ascending),
     sch |-> child.sch]

RECURSIVE GroupKey(_, _, _)
\* the key of a tuple in groups_map: every group-by value's to_string()
\* followed by '|'
GroupKey(tuple, sch, group_by) ==
    IF group_by = <<>> THEN <<>>
    ELSE Value_to_string(Expression_evaluate(Head(group_by), tuple, sch))
            \o <<PIPE>> \o GroupKey(tuple, sch, Tail(group_by))

RECURSIVE KeysInOrder(_)
\* the keys of a std::map<std::string, ...> as iteration yields them
KeysInOrder(keys) ==
    IF keys = {} THEN <<>>
    ELSE LET least == CHOOSE k \in keys : \A o \in keys : ~StrLess(o, k)
         IN  <<least>> \o KeysInOrder(keys \ {least})

RECURSIVE SumOf(_, _, _)
\* state.sums[i] after the tuples: the numeric values of the expression added
SumOf(tuples, sch, expr) ==
    IF tuples = <<>> THEN 0
    ELSE SumOf(Tail(tuples), sch, expr)
         + (IF Value_is_numeric(Expression_evaluate(expr, Head(tuples), sch))
            THEN Value_to_float64(Expression_evaluate(expr, Head(tuples), sch))
            ELSE 0)

\* the row AggregateOperator::open makes of one group: the group-by values
\* of its first tuple, then per aggregate the count for COUNT and the sum
\* for every other type
GroupRow(members, sch, group_by, aggregates) ==
    [i \in 1..Len(group_by) |-> Expression_evaluate(group_by[i], members[1], sch)]
    \o [i \in 1..Len(aggregates) |->
           IF aggregates[i].type = "Count" THEN make_int64(Len(members))
           ELSE make_float64(SumOf(members, sch, aggregates[i].expr))]

\* AggregateOperator::open and next
AggregateOperator(child, group_by, aggregates) ==
    LET keys == KeysInOrder({GroupKey(child.rows[k], child.sch, group_by) :
                                k \in 1..Len(child.rows)})
    IN  [rows |-> [g \in 1..Len(keys) |->
                      GroupRow(SelectSeq(child.rows,
                                   LAMBDA t : GroupKey(t, child.sch, group_by) = keys[g]),
                               child.sch, group_by, aggregates)],
         sch |-> [i \in 1..Len(group_by) |-> Expression_to_string(group_by[i])]
                 \o [i \in 1..Len(aggregates) |-> aggregates[i].name]]

\* ProjectOperator::next on every tuple of the child
ProjectOperator(child, columns) ==
    [rows |-> [k \in 1..Len(child.rows) |->
                  [i \in 1..Len(columns) |->
                      Expression_evaluate(columns[i], child.rows[k], child.sch)]],
     sch |-> [i \in 1..Len(columns) |-> Expression_to_string(columns[i])]]

(***************************************************************************)
(* SELECT: the statement the parser makes, the plan, its execution         *)
(***************************************************************************)
NoExpr == [kind |-> "none"]

\* Parser::parse_select on the ORDER BY items as written, [expr, desc]
\* each: the expression is added to the statement, an ASC or DESC after it
\* is skipped
parse_order_by(items) == [i \in 1..Len(items) |-> items[i].expr]

AggregateNames == {"COUNT", "SUM", "MIN", "MAX", "AVG"}

IsAggregate(col) == col.kind = "Function" /\ col.name \in AggregateNames

\* the AggregateInfo build_plan makes of an aggregate function call (the
\* function names are written in upper case here)
AggregateInfo(col) ==
    [type |-> CASE col.name = "SUM" -> "Sum"
                [] col.name = "MIN" -> "Min"
                [] col.name = "MAX" -> "Max"
                [] col.name = "AVG" -> "Avg"
                [] OTHER -> "Count",
     expr |-> col.args[1],
     name |-> Expression_to_string(col)]

\* step 2 of build_plan
PlanFilter(root, stmt) ==
    IF stmt.where # NoExpr THEN FilterOperator(root, stmt.where) ELSE root

\* step 3 of build_plan
PlanAggregate(root, stmt) ==
    LET calls == SelectSeq(stmt.columns, IsAggregate)
    IN  IF stmt.group_by # <<>> \/ calls # <<>>
        THEN AggregateOperator(root, stmt.group_by,
                               [i \in 1..Len(calls) |-> AggregateInfo(calls[i])])
        ELSE root

\* step 4 of build_plan: every sort key ascending
PlanSort(root, stmt) ==
    IF stmt.order_by # <<>>
    THEN SortOperator(root, stmt.order_by, [i \in 1..Len(stmt.order_by) |-> TRUE])
    ELSE root

\* step 5 of build_plan
PlanProject(root, stmt) ==
    IF stmt.columns # <<>> THEN ProjectOperator(root, stmt.columns) ELSE root

\* QueryExecutor::build_plan, scan being the tuples of the SeqScanOperator
build_plan(scan, stmt) ==
    PlanProject(PlanSort(PlanAggregate(PlanFilter(scan, stmt), stmt), stmt), stmt)

RECURSIVE TuplesOf(_)
\* the tuples Iterator::next yielded
TuplesOf(rows) ==
    IF rows = <<>> THEN <<>> ELSE <<Head(rows).values>> \o TuplesOf(Tail(rows))

\* QueryExecutor::execute_select: the plan of build_plan pulled to its end;
\* the SeqScanOperator's next is Iterator::next
execute_select(e, stmt, txn) ==
    LET table_meta == Catalog_get_table_by_name(e.catalog, stmt.table)
        f    == filename_(stmt.table)
        iter == FullScan(e.sm, f, table_meta.columns)
        e1   == [e EXCEPT !.sm = open_file(@, f)]
    IN  IF ~table_meta.has_value
        THEN Returns(e, set_error("Failed to build execution plan"))
        ELSE IF iter.status = "throw" THEN Throws(e1)
        ELSE Returns(e1, [QueryResult EXCEPT !.rows =
                            build_plan([rows |-> TuplesOf(iter.rows),
                                        sch |-> TableSchema(table_meta.columns)],
                                       stmt).rows])

\* execute, execute_begin, execute_commit and execute_rollback yield
\* [e, current_txn_, result, txn]: txn is the transaction the statement ran in
Done(e, current, result, txn) ==
    [e |-> e, current_txn_ |-> current, result |-> result, txn |-> txn]

\* execute_begin as it would be without the test of current_txn_
execute_begin_unguarded(e, current) ==
    LET b == TransactionManager_begin(e.tm)
    IN  Done([e EXCEPT !.tm = b.tm], b.txn, QueryResult, b.txn)

\* QueryExecutor::execute_begin
execute_begin(e, current) ==
    IF current # 0
    THEN Done(e, current, set_error("Transaction already in progress"), current)
    ELSE LET b == TransactionManager_begin(e.tm)
         IN  Done([e EXCEPT !.tm = b.tm], b.txn, QueryResult, b.txn)

\* QueryExecutor::execute_commit
execute_commit(e, current) ==
    IF current = 0
    THEN Done(e, current, set_error("No transaction in progress"), 0)
    ELSE Done(TransactionManager_commit(e, current), 0, QueryResult, current)

\* QueryExecutor::execute_rollback
execute_rollback(e, current) ==
    IF current = 0
    THEN Done(e, current, set_error("No transaction in progress"), 0)
    ELSE Done(TransactionManager_abort(e, current), 0, QueryResult, current)

\* the try block of execute: the statement dispatched on its type
Dispatch(e, stmt, txn) ==
    CASE stmt.type = "Select" -> execute_select(e, stmt, txn)
      [] stmt.type = "CreateTable" -> execute_create_table(e, stmt)
      [] stmt.type = "Insert" -> execute_insert(e, stmt, txn)
      [] stmt.type = "Delete" -> execute_delete(e, stmt, txn)
      [] stmt.type = "Update" -> execute_update(e, stmt, txn)
      [] OTHER -> Returns(e, set_error("Unsupported statement type"))

\* the end of execute, r being what the try block came to: the commit
\* after it, or the abort in the catch blocks
EndOfTry(r, is_auto_commit, current, txn) ==
    IF r.throw
    THEN Done(IF is_auto_commit /\ txn # 0
              THEN TransactionManager_abort(r.e, txn) ELSE r.e,
              current, set_error("Execution error"), txn)
    ELSE Done(IF is_auto_commit /\ txn # 0
              THEN TransactionManager_commit(r.e, txn) ELSE r.e,
              current, r.result, txn)

\* QueryExecutor::execute
execute(e, current, stmt) ==
    IF stmt.type = "TransactionBegin" THEN execute_begin(e, current)
    ELSE IF stmt.type = "TransactionCommit" THEN execute_commit(e, current)
    ELSE IF stmt.type = "TransactionRollback" THEN execute_rollback(e, current)
    ELSE
    LET is_auto_commit == current = 0
        implicit == is_auto_commit
                    /\ stmt.type \in {"Select", "Insert", "Update", "Delete"}
        b   == TransactionManager_begin(e.tm)
        txn == IF implicit THEN b.txn ELSE current
    IN  EndOfTry(Dispatch(IF implicit THEN [e EXCEPT !.tm = b.tm] ELSE e, stmt, txn),
                 is_auto_commit, current, txn)

(***************************************************************************)
(* The B-tree index (btree.c).  An index is [file, root_page, num_pages];  *)
(* file is the sequence of its pages, page 0 first; a page is [page_type,  *)
(* num_keys, right_sibling, entries], entries being the btree_entry_t in   *)
(* use, [key, tuple_id] each.  Keys are INT64.                             *)
(***************************************************************************)
BTREE_MAX_KEYS_PER_PAGE == 100

BTREE_LESS == 0 - 1
BTREE_EQUAL == 0
BTREE_GREATER == 1

\* btree_compare on two INT64 keys
btree_compare(a, b) ==
    IF a < b THEN BTREE_LESS ELSE IF a > b THEN BTREE_GREATER ELSE BTREE_EQUAL

\* init_btree_page
init_btree_page(page_type) ==
    [page_type |-> page_type, num_keys |-> 0, right_sibling |-> 0 - 1,
     entries |-> <<>>]

\* btree_create: the root page written, one page in the file
btree_create ==
    [file |-> <<init_btree_page("ROOT")>>, root_page |-> 0, num_pages |-> 1]

\* btree_split_page: nothing is moved, no page is added
btree_split_page(index, page, split_point) == index.num_pages

\* btree_insert: [index, ret].  The root page is read; with room in it the
\* entry is put at position num_keys (the entries from there on, which are
\* not in use, are moved up by one) and the page is written back; a full
\* root page is left as it is and 0 is returned all the same.
btree_insert(index, key, tuple_id) ==
    LET page == index.file[1]
    IN  IF page.num_keys < BTREE_MAX_KEYS_PER_PAGE
        THEN [index |-> [index EXCEPT !.file[1] =
                            [page EXCEPT !.entries = Append(@, [key |-> key,
                                                                tuple_id |-> tuple_id]),
                                         !.num_keys = @ + 1]],
              ret |-> 0]
        ELSE [index |-> index, ret |-> 0]

RECURSIVE BinarySearch(_, _, _, _)
\* the loop of btree_search on the entries of the root page, 0-based lo, hi
BinarySearch(entries, key, lo, hi) ==
    IF lo > hi THEN <<>>
    ELSE LET mid == (lo + hi) \div 2
             cmp == btree_compare(key, entries[mid + 1].key)
         IN  IF cmp = BTREE_EQUAL THEN <<entries[mid + 1].tuple_id>>
             ELSE IF cmp = BTREE_LESS THEN BinarySearch(entries, key, lo, mid - 1)
             ELSE BinarySearch(entries, key, mid + 1, hi)

\* btree_search: the tuple ids of the NULL-terminated result, <<>> for NULL
btree_search(index, key) ==
    BinarySearch(index.file[1].entries, key, 0, index.file[1].num_keys - 1)

NoKey == [null |-> TRUE, key |-> 0]
Key(k) == [null |-> FALSE, key |-> k]

\* btree_begin_scan_range
btree_begin_scan_range(min_key, max_key) ==
    [page_num |-> 0, entry_num |-> 0, eof |-> FALSE,
     min_key |-> min_key, max_key |-> max_key]

\* the bound checks of btree_scan_next on one entry
BelowMin(scan, entry) ==
    ~scan.min_key.null /\ btree_compare(entry.key, scan.min_key.key) = BTREE_LESS
AboveMax(scan, entry) ==
    ~scan.max_key.null /\ btree_compare(entry.key, scan.max_key.key) = BTREE_GREATER

\* what btree_scan_next does at entry number `at` (1-based), the first one
\* from entry_num on that is not below min_key: an entry above max_key ends
\* the scan, any other is returned
ScanAt(scan, entries, at) ==
    IF AboveMax(scan, entries[at])
    THEN [scan |-> [scan EXCEPT !.entry_num = at, !.eof = TRUE],
          found |-> FALSE, result |-> TupleId(0, 0)]
    ELSE [scan |-> [scan EXCEPT !.entry_num = at],
          found |-> TRUE, result |-> entries[at].tuple_id]

\* btree_scan_next on the current page: [scan, result, found].  Entries
\* below min_key are passed over; behind the last entry of the last page
\* the scan ends.
btree_scan_next(index, scan) ==
    LET entries == index.file[scan.page_num + 1].entries
        Passed(k) == \A j \in (scan.entry_num + 1)..(k - 1) : BelowMin(scan, entries[j])
    IN  IF scan.eof THEN [scan |-> scan, found |-> FALSE, result |-> TupleId(0, 0)]
        ELSE IF \E k \in (scan.entry_num + 1)..Len(entries) : ~BelowMin(scan, entries[k])
        THEN ScanAt(scan, entries,
                    CHOOSE k \in (scan.entry_num + 1)..Len(entries) :
                        ~BelowMin(scan, entries[k]) /\ Passed(k))
        ELSE [scan |-> [scan EXCEPT !.page_num = index.num_pages, !.entry_num = 0,
                                    !.eof = TRUE],
              found |-> FALSE, result |-> TupleId(0, 0)]

\* no index call made yet
NoReply == [op |-> "none", key |-> NoKey, tids |-> <<>>,
            scan |-> btree_begin_scan_range(NoKey, NoKey), done |-> TRUE]

(***************************************************************************)
(* The lexer (lexer.hpp, token.hpp).  A text is the sequence of its        *)
(* character codes.  A Token is [type, lexeme, int64_value, double_value,  *)
(* string_value]; its line and column are left out.  The value of a        *)
(* floating-point literal is held in millionths.                           *)
(***************************************************************************)
Token(type, lexeme) ==
    [type |-> type, lexeme |-> lexeme, int64_value |-> 0, double_value |-> 0,
     string_value |-> <<>>]

\* Lexer::init_keywords: the words as keywords_ holds them
keywords_ ==
    {[word |-> <<83, 69, 76, 69, 67, 84>>, type |-> "Select"],
     [word |-> <<70, 82, 79, 77>>, type |-> "From"],
     [word |-> <<87, 72, 69, 82, 69>>, type |-> "Where"],
     [word |-> <<73, 78, 83, 69, 82, 84>>, type |-> "Insert"],
     [word |-> <<73, 78, 84, 79>>, type |-> "Into"],
     [word |-> <<86, 65, 76, 85, 69, 83>>, type |-> "Values"],
     [word |-> <<85, 80, 68, 65, 84, 69>>, type |-> "Update"],
     [word |-> <<83, 69, 84>>, type |-> "Set"],
     [word |-> <<68, 69, 76, 69, 84, 69>>, type |-> "Delete"],
     [word |-> <<67, 82, 69, 65, 84, 69>>, type |-> "Create"],
     [word |-> <<84, 65, 66, 76, 69>>, type |-> "Table"],
     [word |-> <<68, 82, 79, 80>>, type |-> "Drop"],
     [word |-> <<73, 78, 68, 69, 88>>, type |-> "Index"],
     [word |-> <<79, 78>>, type |-> "On"],
     [word |-> <<65, 78, 68>>, type |-> "And"],
     [word |-> <<79, 82>>, type |-> "Or"],
     [word |-> <<78, 79, 84>>, type |-> "Not"],
     [word |-> <<73, 78>>, type |-> "In"],
     [word |-> <<76, 73, 75, 69>>, type |-> "Like"],
     [word |-> <<73, 83>>, type |-> "Is"],
     [word |-> <<78, 85, 76, 76>>, type |-> "Null"],
     [word |-> <<80, 82, 73, 77, 65, 82, 89>>, type |-> "Primary"],
     [word |-> <<75, 69, 89>>, type |-> "Key"],
     [word |-> <<70, 79, 82, 69, 73, 71, 78>>, type |-> "Foreign"],
     [word |-> <<82, 69, 70, 69, 82, 69, 78, 67, 69, 83>>, type |-> "References"],
     [word |-> <<74, 79, 73, 78>>, type |-> "Join"],
     [word |-> <<76, 69, 70, 84>>, type |-> "Left"],
     [word |-> <<82, 73, 71, 72, 84>>, type |-> "Right"],
     [word |-> <<73, 78, 78, 69, 82>>, type |-> "Inner"],
     [word |-> <<79, 85, 84, 69, 82>>, type |-> "Outer"],
     [word |-> <<79, 82, 68, 69, 82>>, type |-> "Order"],
     [word |-> <<66, 89>>, type |-> "By"],
     [word |-> <<65, 83, 67>>, type |-> "Asc"],
     [word |-> <<68, 69, 83, 67>>, type |-> "Desc"],
     [word |-> <<71, 82, 79, 85, 80>>, type |-> "Group"],
     [word |-> <<72, 65, 86, 73, 78, 71>>, type |-> "Having"],
     [word |-> <<76, 73, 77, 73, 84>>, type |-> "Limit"],
     [word |-> <<79, 70, 70, 83, 69, 84>>, type |-> "Offset"],
     [word |-> <<65, 83>>, type |-> "As"],
     [word |-> <<68, 73, 83, 84, 73, 78, 67, 84>>, type |-> "Distinct"],
     [word |-> <<67, 79, 85, 78, 84>>, type |-> "Count"],
     [word |-> <<83, 85, 77>>, type |-> "Sum"],
     [word |-> <<65, 86, 71>>, type |-> "Avg"],
     [word |-> <<77, 73, 78>>, type |-> "Min"],
     [word |-> <<77, 65, 88>>, type |-> "Max"],
     [word |-> <<66, 69, 71, 73, 78>>, type |-> "Begin"],
     [word |-> <<67, 79, 77, 77, 73, 84>>, type |-> "Commit"],
     [word |-> <<82, 79, 76, 76, 66, 65, 67, 75>>, type |-> "Rollback"],
     [word |-> <<84, 82, 85, 78, 67, 65, 84, 69>>, type |-> "Truncate"],
     [word |-> <<65, 76, 84, 69, 82>>, type |-> "Alter"],
     [word |-> <<65, 68, 68>>, type |-> "Add"],
     [word |-> <<67, 79, 76, 85, 77, 78>>, type |-> "Column"],
     [word |-> <<84, 89, 80, 69>>, type |-> "Type"],
     [word |-> <<67, 79, 78, 83, 84, 82, 65, 73, 78, 84>>, type |-> "Constraint"],
     [word |-> <<85, 78, 73, 81, 85, 69>>, type |-> "Unique"],
     [word |-> <<67, 72, 69, 67, 75>>, type |-> "Check"],
     [word |-> <<68, 69, 70, 65, 85, 76, 84>>, type |-> "Default"],
     [word |-> <<69, 88, 73, 83, 84, 83>>, type |-> "Exists"],
     [word |-> <<86, 65, 82, 67, 72, 65, 82>>, type |-> "Varchar"]}

\* keywords_.find(identifier): std::map<std::string, TokenType>, the words
\* compared byte by byte
keywords_find(identifier) ==
    IF \E k \in keywords_ : k.word = identifier
    THEN [found |-> TRUE, type |-> (CHOOSE k \in keywords_ : k.word = identifier).type]
    ELSE [found |-> FALSE, type |-> "Identifier"]

\* Token::is_keyword
Token_is_keyword(tok) == \E k \in keywords_ : k.type = tok.type

\* current_char_ at a position: input_[position_], '\0' behind the end
current_char_(input, position) ==
    IF position < Len(input) THEN input[position + 1] ELSE 0

\* Lexer::is_letter, is_digit, is_identifier_char
is_letter(c) == (c >= 97 /\ c <= 122) \/ (c >= 65 /\ c <= 90) \/ c = 95
is_digit(c) == c >= 48 /\ c <= 57
is_identifier_char(c) == is_letter(c) \/ is_digit(c)

\* the characters of a text
Chars == 0..255
Digits == {c \in Chars : is_digit(c)}
IdentifierChars == {c \in Chars : is_identifier_char(c)}

\* while (current_char_ is one of chars) advance(): the position the loop
\* ends at
AdvanceWhile(input, position, chars) ==
    IF position >= Len(input) THEN Len(input)
    ELSE CHOOSE p \in position..Len(input) :
            /\ \A q \in position..(p - 1) : input[q + 1] \in chars
            /\ (p = Len(input) \/ input[p + 1] \notin chars)

\* Lexer::skip_comment: up to the end of the line
skip_comment(input, position) ==
    AdvanceWhile(input, position, Chars \ {10})

RECURSIVE skip_whitespace(_, _)
\* Lexer::skip_whitespace: blanks, tabs, line ends and -- comments
skip_whitespace(input, position) ==
    IF position >= Len(input) THEN position
    ELSE IF current_char_(input, position) \in {32, 9, 10, 13}
    THEN skip_whitespace(input, position + 1)
    ELSE IF current_char_(input, position) = 45
            /\ position + 1 < Len(input) /\ input[position + 2] = 45
    THEN skip_whitespace(input, skip_comment(input, position))
    ELSE position

\* 10 to the power of a digit count of at most six
Pow10(n) == CASE n = 0 -> 1 [] n = 1 -> 10 [] n = 2 -> 100 [] n = 3 -> 1000
              [] n = 4 -> 10000 [] n = 5 -> 100000 [] OTHER -> 1000000

\* std::stod of digits '.' digits and an exponent, in millionths (six decimals
\* and exponents up to six are kept)
stod(number_str) ==
    LET p1   == AdvanceWhile(number_str, 0, Digits)
        p2   == AdvanceWhile(number_str, p1 + 1, Digits)
        frac == SubSeq(number_str, p1 + 2, IF p2 < p1 + 7 THEN p2 ELSE p1 + 7)
        mant == DigitRun(number_str, [n |-> 0, k |-> 0]).n * 1000000
                + DigitRun(frac, [n |-> 0, k |-> 0]).n * Pow10(6 - Len(frac))
        neg  == current_char_(number_str, p2 + 1) = 45
        exp  == DigitRun(SubSeq(number_str,
                                IF current_char_(number_str, p2 + 1) \in {43, 45}
                                THEN p2 + 3 ELSE p2 + 2,
                                Len(number_str)), [n |-> 0, k |-> 0]).n
    IN  IF current_char_(number_str, p2) \notin {101, 69} THEN mant
        ELSE IF neg THEN mant \div Pow10(exp) ELSE mant * Pow10(exp)

\* std::to_string(double): the whole part, a dot and six decimals
DoubleToString(millionths) ==
    IntToString(millionths \div 1000000) \o <<46>>
    \o [i \in 1..6 |-> 48 + ((millionths \div Pow10(6 - i)) % 10)]

\* the end of the exponent in read_number: e or E, a sign, digits
ExponentEnd(input, p) ==
    IF current_char_(input, p) \in {101, 69}
    THEN AdvanceWhile(input,
                      IF current_char_(input, p + 1) \in {43, 45} THEN p + 2 ELSE p + 1,
                      Digits)
    ELSE p

\* Lexer::read_number: [tok, position].  The digits are read; the test for
\* a decimal point asks is_digit() of the current character, which is the
\* point itself.
read_number(input, position) ==
    LET p1         == AdvanceWhile(input, position, Digits)
        p2         == ExponentEnd(input, AdvanceWhile(input, p1 + 1, Digits))
        number_str == SubSeq(input, position + 1, p1)
    IN  IF current_char_(input, p1) = 46 /\ p1 + 1 < Len(input)
           /\ is_digit(current_char_(input, p1))
        THEN [tok |-> [Token("Number",
                             DoubleToString(stod(SubSeq(input, position + 1, p2))))
                         EXCEPT !.double_value = stod(SubSeq(input, position + 1, p2))],
              position |-> p2]
        ELSE [tok |-> [Token("Number", IntToString(stoll(number_str).val.i))
                         EXCEPT !.int64_value = stoll(number_str).val.i],
              position |-> p1]

\* the character an escape in a string literal stands for
Unescape(c) == CASE c = 110 -> 10 [] c = 116 -> 9 [] c = 114 -> 13 [] OTHER -> c

RECURSIVE StringBody(_, _, _, _)
\* the loop of read_string from behind the opening quote: [value, position],
\* position being that of the closing quote or the end
StringBody(input, position, quote_char, value) ==
    IF position >= Len(input) \/ current_char_(input, position) = quote_char
    THEN [value |-> value, position |-> position]
    ELSE IF current_char_(input, position) = 92 /\ position + 1 < Len(input)
    THEN StringBody(input, position + 2, quote_char,
                    Append(value, Unescape(current_char_(input, position + 1))))
    ELSE StringBody(input, position + 1, quote_char,
                    Append(value, current_char_(input, position)))

\* Token(type, value, is_string) and the skip of the closing quote
StringToken(input, body) ==
    [tok |-> [Token("String", <<39>> \o body.value \o <<39>>)
                EXCEPT !.string_value = body.value],
     position |-> IF body.position < Len(input) THEN body.position + 1
                  ELSE body.position]

\* Lexer::read_string
read_string(input, position) ==
    StringToken(input, StringBody(input, position + 1,
                                  current_char_(input, position), <<>>))

\* Lexer::read_identifier: the word is looked up as it is written
read_identifier(input, position) ==
    LET p == AdvanceWhile(input, position, IdentifierChars)
    IN  [tok |-> Token(keywords_find(SubSeq(input, position + 1, p)).type,
                       SubSeq(input, position + 1, p)),
         position |-> p]

\* the two-character operators of read_operator
TwoCharOperators ==
    {[c |-> 61, next |-> 61, type |-> "Eq"], [c |-> 60, next |-> 62, type |-> "Ne"],
     [c |-> 60, next |-> 61, type |-> "Le"], [c |-> 62, next |-> 61, type |-> "Ge"],
     [c |-> 124, next |-> 124, type |-> "Concat"]}

\* the single-character operators of read_operator
OneCharOperator(c) ==
    CASE c = 61 -> "Eq" [] c = 60 -> "Lt" [] c = 62 -> "Gt" [] c = 43 -> "Plus"
      [] c = 45 -> "Minus" [] c = 42 -> "Star" [] c = 47 -> "Slash"
      [] c = 37 -> "Percent" [] c = 40 -> "LParen" [] c = 41 -> "RParen"
      [] c = 44 -> "Comma" [] c = 59 -> "Semicolon" [] c = 46 -> "Dot"
      [] c = 58 -> "Colon" [] OTHER -> "Error"

\* Lexer::read_operator
read_operator(input, position) ==
    LET c    == current_char_(input, position)
        next == current_char_(input, position + 1)
    IN  IF position + 1 < Len(input)
           /\ \E o \in TwoCharOperators : o.c = c /\ o.next = next
        THEN [tok |-> Token((CHOOSE o \in TwoCharOperators :
                                o.c = c /\ o.next = next).type, <<c, next>>),
              position |-> position + 2]
        ELSE IF OneCharOperator(c) = "Error"
        THEN [tok |-> Token("Error", <<85, 110, 107, 110, 111, 119, 110, 32, 111, 112, 101, 114, 97, 116, 111, 114, 58, 32>> \o <<c>>),
              position |-> position + 1]
        ELSE [tok |-> Token(OneCharOperator(c), <<c>>), position |-> position + 1]

\* Lexer::next_token behind skip_whitespace
TokenAt(input, position) ==
    IF position >= Len(input) THEN [tok |-> Token("End", <<>>), position |-> position]
    ELSE IF is_digit(current_char_(input, position)) THEN read_number(input, position)
    ELSE IF current_char_(input, position) \in {39, 34} THEN read_string(input, position)
    ELSE IF is_letter(current_char_(input, position)) THEN read_identifier(input, position)
    ELSE read_operator(input, position)

\* Lexer::next_token: [tok, position]
Lexer_next_token(input, position) == TokenAt(input, skip_whitespace(input, position))

RECURSIVE Tokens(_, _)
\* the tokens next_token returns up to and with End
TokensFrom(input, r) ==
    IF r.tok.type = "End" THEN <<r.tok>> ELSE <<r.tok>> \o Tokens(input, r.position)

Tokens(input, position) == TokensFrom(input, Lexer_next_token(input, position))

(***************************************************************************)
(* The parser (parser.cpp) over the tokens of its lexer.  A parse returns  *)
(* [ok, node, pos]: ok is FALSE for nullptr, node is the expression, the   *)
(* list or the statement, pos the index of the token peek_token would      *)
(* return next.  A statement is [type, ...] with the members of its class. *)
(***************************************************************************)
UnaryExpr(op, expr) == [kind |-> "Unary", op |-> op, expr |-> expr]
FunctionCall(func_name, args, distinct) ==
    [kind |-> "Function", name |-> func_name, args |-> args, distinct |-> distinct]

Null == [ok |-> FALSE, node |-> NoExpr, pos |-> 0]
Ok(node, pos) == [ok |-> TRUE, node |-> node, pos |-> pos]

\* Parser::peek_token with pos - 1 tokens consumed; End stays at the end
Peek(tokens, pos) == IF pos <= Len(tokens) THEN tokens[pos] ELSE Token("End", <<>>)

\* peek_token().type() == type, the test of Parser::consume
Is(tokens, pos, type) == Peek(tokens, pos).type = type

\* ::toupper on every character
ToUpper(s) == [i \in 1..Len(s) |-> IF s[i] >= 97 /\ s[i] <= 122 THEN s[i] - 32 ELSE s[i]]

\* every TokenType but Comma: where a loop ends on peek_token() != Comma
NotComma ==
    {k.type : k \in keywords_}
    \cup {"End", "Identifier", "String", "Number", "Param", "Eq", "Ne", "Lt", "Le",
          "Gt", "Ge", "Plus", "Minus", "Star", "Slash", "Percent", "Concat",
          "LParen", "RParen", "Semicolon", "Dot", "Colon", "Error"}

RECURSIVE Parser_parse_or(_, _), OrLoop(_, _), Parser_parse_and(_, _), AndLoop(_, _)
RECURSIVE Parser_parse_not(_, _), Parser_parse_compare(_, _), Parser_parse_add_sub(_, _)
RECURSIVE AddSubLoop(_, _), Parser_parse_mul_div(_, _), MulDivLoop(_, _)
RECURSIVE Parser_parse_unary(_, _), Parser_parse_primary(_, _), FunctionArgs(_, _, _, _)
RECURSIVE ExprList(_, _, _, _, _, _)

\* Parser::parse_expression
Parser_parse_expression(tokens, pos) == Parser_parse_or(tokens, pos)

\* std::make_unique<BinaryExpr>(left, op, right), nullptr without a right
Binary(left, op, right) ==
    IF right.ok THEN Ok(BinaryExpr(left.node, op, right.node), right.pos) ELSE Null

\* std::make_unique<UnaryExpr>(op, inner), nullptr without an inner
Unary(op, inner) == IF inner.ok THEN Ok(UnaryExpr(op, inner.node), inner.pos) ELSE Null

\* Parser::parse_or
Parser_parse_or(tokens, pos) == OrLoop(tokens, Parser_parse_and(tokens, pos))

OrLoop(tokens, left) ==
    IF ~left.ok THEN Null
    ELSE IF Is(tokens, left.pos, "Or")
    THEN OrLoop(tokens, Binary(left, "Or", Parser_parse_and(tokens, left.pos + 1)))
    ELSE left

\* Parser::parse_and
Parser_parse_and(tokens, pos) == AndLoop(tokens, Parser_parse_not(tokens, pos))

AndLoop(tokens, left) ==
    IF ~left.ok THEN Null
    ELSE IF Is(tokens, left.pos, "And")
    THEN AndLoop(tokens, Binary(left, "And", Parser_parse_not(tokens, left.pos + 1)))
    ELSE left

\* Parser::parse_not
Parser_parse_not(tokens, pos) ==
    IF Is(tokens, pos, "Not") THEN Unary("Not", Parser_parse_not(tokens, pos + 1))
    ELSE Parser_parse_compare(tokens, pos)

\* the one comparison parse_compare takes behind its left operand
Compared(tokens, left) ==
    IF ~left.ok THEN Null
    ELSE IF Peek(tokens, left.pos).type \in {"Eq", "Ne", "Lt", "Le", "Gt", "Ge"}
    THEN Binary(left, Peek(tokens, left.pos).type,
                Parser_parse_add_sub(tokens, left.pos + 1))
    ELSE left

\* Parser::parse_compare
Parser_parse_compare(tokens, pos) == Compared(tokens, Parser_parse_add_sub(tokens, pos))

\* Parser::parse_add_sub
Parser_parse_add_sub(tokens, pos) == AddSubLoop(tokens, Parser_parse_mul_div(tokens, pos))

AddSubLoop(tokens, left) ==
    IF ~left.ok THEN Null
    ELSE IF Peek(tokens, left.pos).type \in {"Plus", "Minus"}
    THEN AddSubLoop(tokens, Binary(left, Peek(tokens, left.pos).type,
                                   Parser_parse_mul_div(tokens, left.pos + 1)))
    ELSE left

\* Parser::parse_mul_div
Parser_parse_mul_div(tokens, pos) == MulDivLoop(tokens, Parser_parse_unary(tokens, pos))

MulDivLoop(tokens, left) ==
    IF ~left.ok THEN Null
    ELSE IF Peek(tokens, left.pos).type \in {"Star", "Slash"}
    THEN MulDivLoop(tokens, Binary(left, Peek(tokens, left.pos).type,
                                   Parser_parse_unary(tokens, left.pos + 1)))
    ELSE left

\* Parser::parse_unary
Parser_parse_unary(tokens, pos) ==
    IF Peek(tokens, pos).type \in {"Minus", "Plus"}
    THEN Unary(Peek(tokens, pos).type, Parser_parse_unary(tokens, pos + 1))
    ELSE Parser_parse_primary(tokens, pos)

\* the end of a function call: the closing parenthesis behind the arguments
FunctionEnd(tokens, func_name, distinct, args) ==
    IF args.ok /\ Is(tokens, args.pos, "RParen")
    THEN Ok(FunctionCall(func_name, args.node, distinct), args.pos + 1)
    ELSE Null

\* func->add_arg(arg), nullptr without an argument
AddArg(tokens, args, arg) ==
    IF arg.ok THEN FunctionArgs(tokens, arg.pos, Append(args, arg.node), FALSE) ELSE Null

\* the argument loop of parse_primary: while (peek_token() != RParen)
FunctionArgs(tokens, pos, args, first) ==
    IF Is(tokens, pos, "RParen") THEN Ok(args, pos)
    ELSE IF ~first /\ ~Is(tokens, pos, "Comma") THEN Ok(args, pos)
    ELSE AddArg(tokens, args,
                Parser_parse_expression(tokens, IF first THEN pos ELSE pos + 1))

\* the parenthesised expression of parse_primary: the inner expression
Parenthesised(tokens, expr) ==
    IF expr.ok /\ Is(tokens, expr.pos, "RParen") THEN Ok(expr.node, expr.pos + 1)
    ELSE Null

\* Parser::parse_primary
Parser_parse_primary(tokens, pos) ==
    LET tok == Peek(tokens, pos)
        distinct == Is(tokens, pos + 2, "Distinct")
    IN  IF tok.type = "Number"
        THEN IF \E i \in 1..Len(tok.lexeme) : tok.lexeme[i] = 46
             THEN Ok(ConstantExpr(make_float64(tok.double_value)), pos + 1)
             ELSE Ok(ConstantExpr(make_int64(tok.int64_value)), pos + 1)
        ELSE IF tok.type = "String"
        THEN Ok(ConstantExpr(make_text(tok.string_value)), pos + 1)
        ELSE IF tok.type = "Identifier" \/ Token_is_keyword(tok)
        THEN IF Is(tokens, pos + 1, "LParen")
             THEN FunctionEnd(tokens, ToUpper(tok.lexeme), distinct,
                              FunctionArgs(tokens, IF distinct THEN pos + 3 ELSE pos + 2,
                                           <<>>, TRUE))
             ELSE Ok(ColumnExpr(tok.lexeme), pos + 1)
        ELSE IF tok.type = "LParen"
        THEN Parenthesised(tokens, Parser_parse_expression(tokens, pos + 1))
        ELSE Null

\* one expression of a list and the test that ends the list behind it;
\* skip holds ASC and DESC behind an ORDER BY item
ExprItem(tokens, list, skip, stop, expr) ==
    IF ~expr.ok THEN Null
    ELSE IF Peek(tokens, IF Peek(tokens, expr.pos).type \in skip
                         THEN expr.pos + 1 ELSE expr.pos).type \in stop
    THEN Ok(Append(list, expr.node),
            IF Peek(tokens, expr.pos).type \in skip THEN expr.pos + 1 ELSE expr.pos)
    ELSE ExprList(tokens,
                  IF Peek(tokens, expr.pos).type \in skip THEN expr.pos + 1 ELSE expr.pos,
                  Append(list, expr.node), FALSE, skip, stop)

\* while (true) { if (!first && !consume(Comma)) break; parse_expression;
\* if (peek_token() in stop) break; }: the loops of parse_select and of a
\* row of parse_insert
ExprList(tokens, pos, list, first, skip, stop) ==
    IF ~first /\ ~Is(tokens, pos, "Comma") THEN Ok(list, pos)
    ELSE ExprItem(tokens, list, skip, stop,
                  Parser_parse_expression(tokens, IF first THEN pos ELSE pos + 1))

\* a member of the statement set from a parse, nullptr without either
SetField(st, field, r) ==
    IF st.ok /\ r.ok THEN Ok([st.node EXCEPT ![field] = r.node], r.pos) ELSE Null

\* if (consume(keyword)) { parse_expression }
OptionalExpr(tokens, pos, keyword) ==
    IF Is(tokens, pos, keyword) THEN Parser_parse_expression(tokens, pos + 1)
    ELSE Ok(NoExpr, pos)

\* GROUP BY and ORDER BY of parse_select
OptionalList(tokens, pos, keyword, skip) ==
    IF ~Is(tokens, pos, keyword) THEN Ok(<<>>, pos)
    ELSE IF Is(tokens, pos + 1, "By")
    THEN ExprList(tokens, pos + 2, <<>>, TRUE, skip, NotComma)
    ELSE Null

\* LIMIT and OFFSET of parse_select: the int64 of the Number that follows
OptionalNumber(tokens, pos, keyword, default) ==
    IF ~Is(tokens, pos, keyword) THEN Ok(default, pos)
    ELSE IF Is(tokens, pos + 1, "Number") THEN Ok(Peek(tokens, pos + 1).int64_value, pos + 2)
    ELSE Null

WithExpr(tokens, st, field, keyword) ==
    IF st.ok THEN SetField(st, field, OptionalExpr(tokens, st.pos, keyword)) ELSE Null

WithList(tokens, st, field, keyword, skip) ==
    IF st.ok THEN SetField(st, field, OptionalList(tokens, st.pos, keyword, skip))
    ELSE Null

WithNumber(tokens, st, field, keyword) ==
    IF st.ok
    THEN SetField(st, field, OptionalNumber(tokens, st.pos, keyword, st.node[field]))
    ELSE Null

\* SelectStatement()
SelectStatement ==
    [type |-> "Select", distinct |-> FALSE, columns |-> <<>>, from |-> NoExpr,
     where |-> NoExpr, group_by |-> <<>>, having |-> NoExpr, order_by |-> <<>>,
     limit |-> 0, offset |-> 0]

\* the FROM clause of parse_select, which has to be there
SelectFrom(tokens, st) ==
    IF st.ok /\ Is(tokens, st.pos, "From")
    THEN SetField(st, "from", Parser_parse_expression(tokens, st.pos + 1))
    ELSE Null

\* Parser::parse_select
Parser_parse_select(tokens, pos) ==
    LET distinct == Is(tokens, pos + 1, "Distinct")
    IN  IF ~Is(tokens, pos, "Select") THEN Null
        ELSE WithNumber(tokens,
             WithNumber(tokens,
             WithList(tokens,
             WithExpr(tokens,
             WithList(tokens,
             WithExpr(tokens,
             SelectFrom(tokens,
             SetField(Ok([SelectStatement EXCEPT !.distinct = distinct], pos), "columns",
                      ExprList(tokens, IF distinct THEN pos + 2 ELSE pos + 1,
                               <<>>, TRUE, {}, {"From"}))),
             "where", "Where"),
             "group_by", "Group", {}),
             "having", "Having"),
             "order_by", "Order", {"Asc", "Desc"}),
             "limit", "Limit"),
             "offset", "Offset")

\* ColumnDef
ColumnDef(name_, type_) ==
    [name_ |-> name_, type_ |-> type_, is_primary_key_ |-> FALSE,
     is_not_null_ |-> FALSE, is_unique_ |-> FALSE]

RECURSIVE Constraints(_, _, _), ColumnDefs(_, _, _, _)
\* the constraint loop of parse_create_table on the last column
Constraints(tokens, pos, col) ==
    IF Is(tokens, pos, "Primary")
    THEN IF Is(tokens, pos + 1, "Key")
         THEN Constraints(tokens, pos + 2, [col EXCEPT !.is_primary_key_ = TRUE])
         ELSE Null
    ELSE IF Is(tokens, pos, "Not")
    THEN IF Is(tokens, pos + 1, "Null")
         THEN Constraints(tokens, pos + 2, [col EXCEPT !.is_not_null_ = TRUE])
         ELSE Null
    ELSE IF Is(tokens, pos, "Unique")
    THEN Constraints(tokens, pos + 1, [col EXCEPT !.is_unique_ = TRUE])
    ELSE Ok(col, pos)

\* a column with its constraints and the test that ends the column list
ColumnItem(tokens, list, col) ==
    IF ~col.ok THEN Null
    ELSE IF Is(tokens, col.pos, "RParen") THEN Ok(Append(list, col.node), col.pos)
    ELSE ColumnDefs(tokens, col.pos, Append(list, col.node), FALSE)

\* the column loop of parse_create_table
ColumnDefs(tokens, pos, list, first) ==
    LET p        == IF first THEN pos ELSE pos + 1
        col_name == Peek(tokens, p)
        col_type == Peek(tokens, p + 1)
        len      == Peek(tokens, p + 3)
    IN  IF ~first /\ ~Is(tokens, pos, "Comma") THEN Ok(list, pos)
        ELSE IF col_name.type # "Identifier" THEN Null
        ELSE IF col_type.type = "Varchar" /\ Is(tokens, p + 2, "LParen")
        THEN IF len.type # "Number" THEN Null
             ELSE ColumnItem(tokens, list,
                     Constraints(tokens, IF Is(tokens, p + 4, "RParen") THEN p + 5 ELSE p + 4,
                                 ColumnDef(col_name.lexeme,
                                           col_type.lexeme \o <<40>> \o len.lexeme \o <<41>>)))
        ELSE ColumnItem(tokens, list,
                        Constraints(tokens, p + 2, ColumnDef(col_name.lexeme, col_type.lexeme)))

\* the closing parenthesis behind a list
Closed(tokens, st) ==
    IF st.ok /\ Is(tokens, st.pos, "RParen") THEN Ok(st.node, st.pos + 1) ELSE Null

\* Parser::parse_create_table, CREATE being consumed.  IF NOT EXISTS is
\* taken as consume(Not) and consume(Exists).
Parser_parse_create_table(tokens, pos) ==
    LET p    == IF Is(tokens, pos + 1, "Not") THEN pos + 3 ELSE pos + 1
        name == Peek(tokens, p)
    IN  IF ~Is(tokens, pos, "Table") THEN Null
        ELSE IF Is(tokens, pos + 1, "Not") /\ ~Is(tokens, pos + 2, "Exists") THEN Null
        ELSE IF name.type # "Identifier" THEN Null
        ELSE IF ~Is(tokens, p + 1, "LParen") THEN Null
        ELSE Closed(tokens,
                    SetField(Ok([type |-> "CreateTable", table_name |-> name.lexeme,
                                 columns |-> <<>>], p + 2),
                             "columns", ColumnDefs(tokens, p + 2, <<>>, TRUE)))

RECURSIVE InsertColumns(_, _, _, _), ValueRows(_, _, _, _), SetClauses(_, _, _, _)
\* the column loop of parse_insert
InsertColumns(tokens, pos, list, first) ==
    LET p == IF first THEN pos ELSE pos + 1
    IN  IF ~first /\ ~Is(tokens, pos, "Comma") THEN Ok(list, pos)
        ELSE IF ~Is(tokens, p, "Identifier") THEN Null
        ELSE IF Is(tokens, p + 1, "RParen")
        THEN Ok(Append(list, ColumnExpr(Peek(tokens, p).lexeme)), p + 1)
        ELSE InsertColumns(tokens, p + 1,
                           Append(list, ColumnExpr(Peek(tokens, p).lexeme)), FALSE)

\* stmt->add_row(row) and the test that ends the row loop
AddRow(tokens, rows, row) ==
    IF ~row.ok THEN Null
    ELSE IF Is(tokens, row.pos, "Comma")
    THEN ValueRows(tokens, row.pos, Append(rows, row.node), FALSE)
    ELSE Ok(Append(rows, row.node), row.pos)

\* the row loop of parse_insert
ValueRows(tokens, pos, rows, first) ==
    LET p == IF first THEN pos ELSE pos + 1
    IN  IF ~first /\ ~Is(tokens, pos, "Comma") THEN Ok(rows, pos)
        ELSE IF ~Is(tokens, p, "LParen") THEN Null
        ELSE AddRow(tokens, rows,
                    Closed(tokens, ExprList(tokens, p + 1, <<>>, TRUE, {}, {"RParen"})))

\* VALUES and the rows of parse_insert
InsertValues(tokens, st) ==
    IF st.ok /\ Is(tokens, st.pos, "Values")
    THEN SetField(st, "values", ValueRows(tokens, st.pos + 1, <<>>, TRUE))
    ELSE Null

\* Parser::parse_insert
Parser_parse_insert(tokens, pos) ==
    LET stmt == [type |-> "Insert", table |-> ColumnExpr(Peek(tokens, pos + 2).lexeme),
                 columns |-> <<>>, values |-> <<>>]
    IN  IF ~Is(tokens, pos, "Insert") \/ ~Is(tokens, pos + 1, "Into")
           \/ ~Is(tokens, pos + 2, "Identifier")
        THEN Null
        ELSE IF Is(tokens, pos + 3, "LParen")
        THEN InsertValues(tokens,
                          SetField(Ok(stmt, pos + 4), "columns",
                                   Closed(tokens, InsertColumns(tokens, pos + 4, <<>>, TRUE))))
        ELSE InsertValues(tokens, Ok(stmt, pos + 3))

\* stmt->add_set(col, val) and the test that ends the SET loop
AddSet(tokens, list, col, val) ==
    IF ~val.ok THEN Null
    ELSE IF Is(tokens, val.pos, "Comma")
    THEN SetClauses(tokens, val.pos, Append(list, [col |-> col, val |-> val.node]), FALSE)
    ELSE Ok(Append(list, [col |-> col, val |-> val.node]), val.pos)

\* the SET loop of parse_update
SetClauses(tokens, pos, list, first) ==
    LET p == IF first THEN pos ELSE pos + 1
    IN  IF ~first /\ ~Is(tokens, pos, "Comma") THEN Ok(list, pos)
        ELSE IF ~Is(tokens, p, "Identifier") \/ ~Is(tokens, p + 1, "Eq") THEN Null
        ELSE AddSet(tokens, list, ColumnExpr(Peek(tokens, p).lexeme),
                    Parser_parse_expression(tokens, p + 2))

\* Parser::parse_update
Parser_parse_update(tokens, pos) ==
    IF ~Is(tokens, pos, "Update") \/ ~Is(tokens, pos + 1, "Identifier")
       \/ ~Is(tokens, pos + 2, "Set")
    THEN Null
    ELSE WithExpr(tokens,
                  SetField(Ok([type |-> "Update",
                               table |-> ColumnExpr(Peek(tokens, pos + 1).lexeme),
                               set_clauses |-> <<>>, where |-> NoExpr], pos + 3),
                           "set_clauses", SetClauses(tokens, pos + 3, <<>>, TRUE)),
                  "where", "Where")

\* Parser::parse_delete
Parser_parse_delete(tokens, pos) ==
    IF ~Is(tokens, pos, "Delete") \/ ~Is(tokens, pos + 1, "From")
       \/ ~Is(tokens, pos + 2, "Identifier")
    THEN Null
    ELSE WithExpr(tokens,
                  Ok([type |-> "Delete", table |-> ColumnExpr(Peek(tokens, pos + 2).lexeme),
                      where |-> NoExpr], pos + 3),
                  "where", "Where")

\* Parser::parse_statement on the tokens of a text
ParseTokens(tokens) ==
    CASE Is(tokens, 1, "Select") -> Parser_parse_select(tokens, 1)
      [] Is(tokens, 1, "Create") ->
            IF Is(tokens, 2, "Table") THEN Parser_parse_create_table(tokens, 2) ELSE Null
      [] Is(tokens, 1, "Insert") -> Parser_parse_insert(tokens, 1)
      [] Is(tokens, 1, "Update") -> Parser_parse_update(tokens, 1)
      [] Is(tokens, 1, "Delete") -> Parser_parse_delete(tokens, 1)
      [] Is(tokens, 1, "Begin") -> Ok([type |-> "TransactionBegin"], 2)
      [] Is(tokens, 1, "Commit") -> Ok([type |-> "TransactionCommit"], 2)
      [] Is(tokens, 1, "Rollback") -> Ok([type |-> "TransactionRollback"], 2)
      [] OTHER -> Null

\* Parser(std::make_unique<Lexer>(sql)).parse_statement()
Parser_parse_statement(sql) == ParseTokens(Tokens(sql, 0))

(***************************************************************************)
(* to_string of expressions (expression.cpp) and of statements             *)
(* (statement.hpp), as texts, and the evaluation of an expression that     *)
(* stands alone.                                                           *)
(***************************************************************************)
RECURSIVE Join(_, _)
\* the items with the separator between them
Join(items, sep) ==
    IF items = <<>> THEN <<>>
    ELSE IF Len(items) = 1 THEN items[1]
    ELSE items[1] \o sep \o Join(Tail(items), sep)

\* the text of an operator in BinaryExpr::to_string
op_str(op) ==
    CASE op = "Plus" -> <<32, 43, 32>> [] op = "Minus" -> <<32, 45, 32>> [] op = "Star" -> <<32, 42, 32>>
      [] op = "Slash" -> <<32, 47, 32>> [] op = "Eq" -> <<32, 61, 32>> [] op = "Ne" -> <<32, 60, 62, 32>>
      [] op = "Lt" -> <<32, 60, 32>> [] op = "Le" -> <<32, 60, 61, 32>> [] op = "Gt" -> <<32, 62, 32>>
      [] op = "Ge" -> <<32, 62, 61, 32>> [] op = "And" -> <<32, 65, 78, 68, 32>> [] op = "Or" -> <<32, 79, 82, 32>>
      [] OTHER -> <<32>>

\* ConstantExpr::to_string; a FLOAT64 of the parser holds millionths
ConstantExpr_to_string(value) ==
    CASE value.type = "TEXT" -> <<39>> \o Value_to_string(value) \o <<39>>
      [] value.type = "FLOAT64" -> DoubleToString(value.i)
      [] OTHER -> Value_to_string(value)

RECURSIVE Expr_to_string(_)
\* Expression::to_string: BinaryExpr, UnaryExpr, ColumnExpr, ConstantExpr
\* and FunctionExpr
Expr_to_string(x) ==
    CASE x.kind = "Binary" ->
            Expr_to_string(x.left) \o op_str(x.op) \o Expr_to_string(x.right)
      [] x.kind = "Unary" ->
            (IF x.op = "Minus" THEN <<45>> ELSE <<78, 79, 84, 32>>) \o Expr_to_string(x.expr)
      [] x.kind = "Column" -> x.name
      [] x.kind = "Constant" -> ConstantExpr_to_string(x.value)
      [] x.kind = "Function" ->
            x.name \o <<40>> \o Join([i \in 1..Len(x.args) |-> Expr_to_string(x.args[i])],
                                   <<44, 32>>) \o <<41>>
      [] OTHER -> <<>>

\* the to_string of every expression of a list, with ", " between them
List_to_string(list) ==
    Join([i \in 1..Len(list) |-> Expr_to_string(list[i])], <<44, 32>>)

\* SelectStatement::to_string
SelectStatement_to_string(stmt) ==
    <<83, 69, 76, 69, 67, 84, 32>> \o (IF stmt.distinct THEN <<68, 73, 83, 84, 73, 78, 67, 84, 32>> ELSE <<>>)
    \o List_to_string(stmt.columns)
    \o (IF stmt.from # NoExpr THEN <<32, 70, 82, 79, 77, 32>> \o Expr_to_string(stmt.from) ELSE <<>>)
    \o (IF stmt.where # NoExpr THEN <<32, 87, 72, 69, 82, 69, 32>> \o Expr_to_string(stmt.where) ELSE <<>>)
    \o (IF stmt.group_by # <<>> THEN <<32, 71, 82, 79, 85, 80, 32, 66, 89, 32>> \o List_to_string(stmt.group_by)
        ELSE <<>>)
    \o (IF stmt.having # NoExpr THEN <<32, 72, 65, 86, 73, 78, 71, 32>> \o Expr_to_string(stmt.having) ELSE <<>>)
    \o (IF stmt.order_by # <<>> THEN <<32, 79, 82, 68, 69, 82, 32, 66, 89, 32>> \o List_to_string(stmt.order_by)
        ELSE <<>>)
    \o (IF stmt.limit > 0 THEN <<32, 76, 73, 77, 73, 84, 32>> \o IntToString(stmt.limit) ELSE <<>>)
    \o (IF stmt.offset > 0 THEN <<32, 79, 70, 70, 83, 69, 84, 32>> \o IntToString(stmt.offset) ELSE <<>>)

\* InsertStatement::to_string
InsertStatement_to_string(stmt) ==
    <<73, 78, 83, 69, 82, 84, 32, 73, 78, 84, 79, 32>> \o Expr_to_string(stmt.table) \o <<32, 40>>
    \o List_to_string(stmt.columns) \o <<41, 32, 86, 65, 76, 85, 69, 83, 32>>
    \o Join([i \in 1..Len(stmt.values) |->
                <<40>> \o List_to_string(stmt.values[i]) \o <<41>>], <<44, 32>>)

\* UpdateStatement::to_string
UpdateStatement_to_string(stmt) ==
    <<85, 80, 68, 65, 84, 69, 32>> \o Expr_to_string(stmt.table) \o <<32, 83, 69, 84, 32>>
    \o Join([i \in 1..Len(stmt.set_clauses) |->
                Expr_to_string(stmt.set_clauses[i].col) \o <<32, 61, 32>>
                \o Expr_to_string(stmt.set_clauses[i].val)], <<44, 32>>)
    \o (IF stmt.where # NoExpr THEN <<32, 87, 72, 69, 82, 69, 32>> \o Expr_to_string(stmt.where) ELSE <<>>)

\* DeleteStatement::to_string
DeleteStatement_to_string(stmt) ==
    <<68, 69, 76, 69, 84, 69, 32, 70, 82, 79, 77, 32>> \o Expr_to_string(stmt.table)
    \o (IF stmt.where # NoExpr THEN <<32, 87, 72, 69, 82, 69, 32>> \o Expr_to_string(stmt.where) ELSE <<>>)

\* CreateTableStatement::to_string
CreateTableStatement_to_string(stmt) ==
    <<67, 82, 69, 65, 84, 69, 32, 84, 65, 66, 76, 69, 32>> \o stmt.table_name \o <<32, 40>>
    \o Join([i \in 1..Len(stmt.columns) |->
                stmt.columns[i].name_ \o <<32>> \o stmt.columns[i].type_
                \o (IF stmt.columns[i].is_primary_key_ THEN <<32, 80, 82, 73, 77, 65, 82, 89, 32, 75, 69, 89>> ELSE <<>>)
                \o (IF stmt.columns[i].is_not_null_ THEN <<32, 78, 79, 84, 32, 78, 85, 76, 76>> ELSE <<>>)
                \o (IF stmt.columns[i].is_unique_ THEN <<32, 85, 78, 73, 81, 85, 69>> ELSE <<>>)], <<44, 32>>)
    \o <<41>>

\* the statements statement.hpp gives a to_string
Printable == {"Select", "Insert", "Update", "Delete", "CreateTable"}

\* Statement::to_string
Statement_to_string(stmt) ==
    CASE stmt.type = "Select" -> SelectStatement_to_string(stmt)
      [] stmt.type = "Insert" -> InsertStatement_to_string(stmt)
      [] stmt.type = "Update" -> UpdateStatement_to_string(stmt)
      [] stmt.type = "Delete" -> DeleteStatement_to_string(stmt)
      [] stmt.type = "CreateTable" -> CreateTableStatement_to_string(stmt)

\* UnaryExpr::evaluate on the value of its operand
UnaryExpr_apply(op, val) ==
    CASE op = "Minus" /\ Value_is_numeric(val) -> make_float64(0 - Value_to_float64(val))
      [] op = "Not" -> make_bool(~Value_as_bool(val))
      [] OTHER -> make_null

RECURSIVE evaluate(_)
\* Expression::evaluate(): a constant is its value, a column and a function
\* call are Null
evaluate(x) ==
    CASE x.kind = "Constant" -> x.value
      [] x.kind = "Binary" -> BinaryExpr_apply(x.op, evaluate(x.left), evaluate(x.right))
      [] x.kind = "Unary" -> UnaryExpr_apply(x.op, evaluate(x.expr))
      [] OTHER -> make_null

(***************************************************************************)
(* State                                                                   *)
(***************************************************************************)
VARIABLES
    sm,            \* the StorageManager and the data directory: [disk, open]
    schema,        \* the schema the HeapTable object was built with
    hist,          \* history: the tuples inserted, [tid, values, live, gen] each
    ret,           \* the last call and what it returned
    ops,           \* number of mutating calls made
    gen,           \* number of StorageManagers destroyed so far
    catalog,       \* the Catalog: [tables_, next_oid_]
    tm,            \* the TransactionManager: [next_id, txns]
    locks,         \* the LockManager's table: a set of [key, owner]
    current_txn_,  \* QueryExecutor::current_txn_ of every session, 0 for nullptr
    versions,      \* history: the arguments of every insert(tuple, xmin) and
                   \* remove(rid, xmax) the executors made, [tid, values, xmin, xmax]
    errored,       \* history: the transactions a statement of which ended in error
    last,          \* the last statement executed and its QueryResult
    stmts,         \* number of statements executed
    index,         \* the btree_index_t and its file
    inserted,      \* history: every btree_insert made, [key, tuple_id, ret]
    reply,         \* the last index call and the tuple ids it returned
    oids,          \* history: what every successful create of the Catalog returned, [oid, of]
    parsed,        \* the last call of the lexer, the parser or the evaluator and its results
    server,        \* the network::Server, its accept thread and the caller inside stop()
    conns,         \* the connection of every client: [state, inbox, handler, sent, ...]
    threads,       \* the threads calling into one StorageManager or HeapTable at a time
    plan           \* the operator tree of a SELECT, and the calls made on its root

heapVars == <<schema, hist, ret, ops, gen>>
execVars == <<catalog, tm, locks, current_txn_, versions, errored, last, stmts>>
indexVars == <<index, inserted, reply>>
parseVars == <<parsed>>
netVars == <<server, conns>>
concVars == <<threads, plan>>
vars == <<sm, heapVars, execVars, indexVars, oids, parseVars, netVars, concVars>>

\* no call of the lexer, the parser or the evaluator yet
NoParse ==
    [op |-> "none", sql |-> <<>>, tokens |-> <<>>, first |-> Null, again |-> Null,
     expr |-> NoExpr, value |-> make_null]

\* Server(port): not running, no descriptor, no thread, the counters of
\* ServerStats at 0; stop is where the caller of stop() is, ret what the last
\* call of start() or stop() returned, calls the number of these calls,
\* accepts_failed the number of times accept() returned -1
NewServer ==
    [build |-> "server.cpp", running_ |-> FALSE, status_ |-> "Stopped",
     listen_fd_ |-> "none", accept_thread_ |-> "none", stop |-> "idle",
     ret |-> [op |-> "none", val |-> FALSE], calls |-> 0,
     connections_accepted |-> 0, queries_executed |-> 0, accepts_failed |-> 0]

T == "t.heap"

(***************************************************************************)
(* Inputs of the heap-level behaviours                                     *)
(***************************************************************************)
TxtA == <<97>>
TxtAPipeB == <<97, PIPE, 98>>
TxtBig == [i \in 1..BigLen |-> 98]

Schemas == {<<"TEXT">>, <<"INT64">>, <<"INT32", "BOOL">>}

Tuples(sch) ==
    CASE sch = <<"TEXT">> ->
            {<<make_text(TxtA)>>, <<make_text(TxtAPipeB)>>, <<make_text(TxtBig)>>}
      [] sch = <<"INT64">> ->
            {<<make_int64(7)>>, <<make_int64(0 - 12)>>, <<make_null>>}
      [] OTHER ->
            {<<make_int32(5), make_bool(TRUE)>>, <<make_int32(5), make_bool(FALSE)>>}

\* the tuple a bulk load repeats
Filler(sch) ==
    CASE sch = <<"TEXT">> -> <<make_text(TxtA)>>
      [] sch = <<"INT64">> -> <<make_int64(7)>>
      [] OTHER -> <<make_int32(5), make_bool(TRUE)>>

\* what one caller inserts in a row: one tuple, or as many copies of the
\* filler tuple as the page reserves line pointers for
RowBatches(sch) ==
    {<<t>> : t \in Tuples(sch)} \cup {[i \in 1..RESERVED_SLOTS |-> Filler(sch)]}

TidInputs ==
    {TupleId(p, s) : p \in 0..MaxPageInput,
                     s \in (0..MaxSlotInput) \cup {RESERVED_SLOTS}}

NoRet == [op |-> "none", ok |-> FALSE, tid |-> TupleId(0, 0), pre |-> FALSE,
          status |-> "none", rows |-> <<>>, n |-> 0]

\* whether the line pointer at tid exists and is not a tombstone
SlotLive(m, f, tid) ==
    LET buf == StorageManager_read_page(m, f, tid.page_num).buf
    IN  /\ buf.free_space_offset # 0
        /\ tid.slot_num < buf.num_slots
        /\ SlotAt(buf, tid.slot_num) # 0

\* index in hist of the live entry at tid, 0 when there is none
LiveAt(h, tid) ==
    IF \E i \in 1..Len(h) : h[i].tid = tid /\ h[i].live
    THEN CHOOSE i \in 1..Len(h) : h[i].tid = tid /\ h[i].live
    ELSE 0

\* the sessions: one QueryExecutor each, on the same catalog, storage, lock
\* and transaction managers
Sessions == {"A", "B"}

Stmt(type, table, values, columns, set_clauses) ==
    [type |-> type, table |-> table, values |-> values, columns |-> columns,
     set_clauses |-> set_clauses, where |-> NoExpr, group_by |-> <<>>,
     order_by |-> <<>>]

NoLast == [session |-> "A", stmt |-> Stmt("none", "", <<>>, <<>>, <<>>),
           result |-> QueryResult, txn |-> 0, before |-> 0]

(***************************************************************************)
(* Heap-level behaviours: one table object on one StorageManager, called   *)
(* as the storage tests call it                                            *)
(***************************************************************************)
HeapInit ==
    /\ sm = [disk |-> [f \in FileNames |-> NoFile], open |-> {}]
    /\ schema \in Schemas
    /\ hist = <<>>
    /\ ret = NoRet
    /\ ops = 0
    /\ gen = 0
    /\ catalog = NewCatalog
    /\ tm = NewTransactionManager
    /\ locks = {}
    /\ current_txn_ = [s \in Sessions |-> 0]
    /\ versions = <<>>
    /\ errored = {}
    /\ last = NoLast
    /\ stmts = 0
    /\ index = btree_create
    /\ inserted = <<>>
    /\ reply = NoReply
    /\ oids = <<>>
    /\ parsed = NoParse
    /\ server = NewServer
    /\ conns = <<>>
    /\ threads = <<>>
    /\ plan = <<>>

\* table.create() on a file that does not exist yet
Create ==
    /\ ~sm.disk[T].exists
    /\ ops < MaxOps
    /\ sm' = HeapTable_create(sm, T).sm
    /\ ret' = [NoRet EXCEPT !.op = "create", !.ok = TRUE]
    /\ ops' = ops + 1
    /\ UNCHANGED <<schema, hist, gen>>
    /\ UNCHANGED <<execVars, indexVars, oids, parseVars, netVars, concVars>>

RECURSIVE InsertAll(_, _, _)
\* table.insert(row) for every row of a batch, in order
InsertAll(st, rows, g) ==
    IF rows = <<>> THEN st
    ELSE LET r == HeapTable_insert(st.sm, T, Head(rows))
         IN  IF r.status # "ok" THEN [st EXCEPT !.status = r.status]
             ELSE InsertAll([sm |-> r.sm, status |-> "ok", tid |-> r.tid,
                             hist |-> Append(st.hist,
                                        [tid |-> r.tid, values |-> Head(rows),
                                         live |-> TRUE, gen |-> g])],
                            Tail(rows), g)

Insert(rows) ==
    /\ ops < MaxOps
    /\ Len(hist) + Len(rows) <= MaxRows
    /\ LET r == InsertAll([sm |-> sm, status |-> "ok", tid |-> TupleId(0, 0),
                           hist |-> hist], rows, gen)
       IN  /\ sm' = r.sm
           /\ hist' = r.hist
           /\ ret' = [NoRet EXCEPT !.op = "insert", !.ok = (r.status = "ok"),
                                   !.tid = r.tid, !.status = r.status]
    /\ ops' = ops + 1
    /\ UNCHANGED <<schema, gen>>
    /\ UNCHANGED <<execVars, indexVars, oids, parseVars, netVars, concVars>>

Remove(tid) ==
    /\ ops < MaxOps
    /\ LET r == HeapTable_remove(sm, T, tid)
           k == LiveAt(hist, tid)
       IN  /\ sm' = r.sm
           /\ hist' = IF r.ok /\ k # 0 THEN [hist EXCEPT ![k].live = FALSE] ELSE hist
           /\ ret' = [NoRet EXCEPT !.op = "remove", !.ok = r.ok, !.tid = tid,
                          !.pre = SlotLive(sm, T, tid)]
    /\ ops' = ops + 1
    /\ UNCHANGED <<schema, gen>>
    /\ UNCHANGED <<execVars, indexVars, oids, parseVars, netVars, concVars>>

Get(tid) ==
    /\ LET r == HeapTable_get(sm, T, schema, tid)
       IN  /\ sm' = r.sm
           /\ ret' = [NoRet EXCEPT !.op = "get", !.ok = (r.res.status = "ok"),
                          !.tid = tid, !.status = r.res.status,
                          !.rows = <<[tid |-> tid, values |-> r.res.values]>>]
    /\ UNCHANGED <<schema, hist, ops, gen>>
    /\ UNCHANGED <<execVars, indexVars, oids, parseVars, netVars, concVars>>

\* auto iter = table.scan(); while (iter.next(t)) ...; then tuple_count()
Scan ==
    /\ LET r == FullScan(sm, T, schema)
       IN  /\ sm' = open_file(sm, T)
           /\ ret' = [NoRet EXCEPT !.op = "scan", !.ok = (r.status = "end"),
                          !.status = r.status, !.rows = r.rows,
                          !.n = HeapTable_tuple_count(sm, T)]
    /\ UNCHANGED <<schema, hist, ops, gen>>
    /\ UNCHANGED <<execVars, indexVars, oids, parseVars, netVars, concVars>>

\* the StorageManager is destroyed (its destructor closes every file) and a
\* new one is constructed on the same data directory
Reopen ==
    /\ gen < MaxRestarts
    /\ sm' = [sm EXCEPT !.open = {}]
    /\ gen' = gen + 1
    /\ ret' = [NoRet EXCEPT !.op = "reopen", !.ok = TRUE]
    /\ UNCHANGED <<schema, hist, ops>>
    /\ UNCHANGED <<execVars, indexVars, oids, parseVars, netVars, concVars>>

HeapNext ==
    \/ Create
    \/ \E rows \in RowBatches(schema) : Insert(rows)
    \/ \E tid \in TidInputs : Remove(tid)
    \/ \E tid \in TidInputs : Get(tid)
    \/ Scan
    \/ Reopen

HeapSpec == HeapInit /\ [][HeapNext]_vars

(***************************************************************************)
(* Heap-level claims                                                       *)
(***************************************************************************)
LiveRows == {i \in 1..Len(hist) : hist[i].live}

\* C1: insert(t) returning tid followed by get(tid) succeeds and yields a
\* tuple equal to t, value for value and type for type, whatever the column
\* types and the text, and this stays so after later inserts and removes of
\* other TupleIds, until tid itself is removed.
C1_GetReturnsInserted ==
    \A i \in LiveRows :
        HeapTable_get(sm, T, schema, hist[i].tid).res
            = [status |-> "ok", values |-> hist[i].values]

\* how often the tuple v occurs among the values of the rows at indices I
Occurs(rows, I, v) == Cardinality({i \in I : rows[i].values = v})

\* C2: after n inserts and k removes of k distinct inserted TupleIds, a full
\* scan terminates and yields exactly the n-k tuples inserted and not
\* removed, each exactly once, and tuple_count() returns n-k.
C2_ScanYieldsLiveTuples ==
    LET r == FullScan(sm, T, schema)
        J == 1..Len(r.rows)
    IN  /\ r.status = "end"
        /\ Len(r.rows) = Cardinality(LiveRows)
        /\ \A i \in LiveRows :
              Occurs(r.rows, J, hist[i].values) = Occurs(hist, LiveRows, hist[i].values)
        /\ HeapTable_tuple_count(sm, T) = Cardinality(LiveRows)

RECURSIVE ValuesOf(_)
ValuesOf(rows) ==
    IF rows = <<>> THEN <<>> ELSE <<Head(rows).values>> \o ValuesOf(Tail(rows))

\* C3: every tuple inserted through one StorageManager is returned, with its
\* original content and in insertion order, by a scan through a new
\* StorageManager on the same data directory after the first was destroyed.
C3_ScanAfterRestart ==
    (ret.op = "scan" /\ gen >= 1) =>
        LET Old(h) == h.gen < gen /\ h.live
            oldTids == {hist[i].tid : i \in {k \in LiveRows : hist[k].gen < gen}}
            FromOld(r) == r.tid \in oldTids
        IN  /\ ret.status = "end"
            /\ ValuesOf(SelectSeq(ret.rows, FromOld)) = ValuesOf(SelectSeq(hist, Old))

\* C9: once remove(tid) has succeeded the slot stays a tombstone: get(tid)
\* returns false in every later state, no later insert returns tid again,
\* and the remove leaves the TupleIds and contents of all other tuples of
\* the page unchanged.
C9_TombstoneStays ==
    /\ [](\A i \in 1..Len(hist) :
             ~hist[i].live => HeapTable_get(sm, T, schema, hist[i].tid).res.status = "none")
    /\ [](\A i, j \in 1..Len(hist) : hist[i].tid = hist[j].tid => i = j)
    /\ [][(ret'.op = "remove" /\ ret'.ok) =>
             \A i \in 1..Len(hist) :
                 hist[i].tid # ret'.tid =>
                     HeapTable_get(sm', T, schema, hist[i].tid).res
                         = HeapTable_get(sm, T, schema, hist[i].tid).res]_vars

\* C10: remove(tid) returns false when the slot is already a tombstone (the
\* second remove of the same tid); it returns true only for a slot that held
\* a live tuple.
C10_RemoveFalseOnTombstone ==
    (ret.op = "remove" /\ ret.ok) => ret.pre

\* C11: the TupleId (0,0) is reserved as the null id: no tuple stored by
\* insert is addressed by (0,0), so is_null() is false for every TupleId a
\* successful insert returned, the first insert into an empty table included.
C11_NullIdReserved ==
    \A i \in 1..Len(hist) : ~TupleId_is_null(hist[i].tid)

\* the page images of the table's file
HeapPages == {n \in 0..MaxPageNum :
                StorageManager_read_page(sm, T, n).buf.free_space_offset # 0}

PageOf(n) == StorageManager_read_page(sm, T, n).buf

\* the inserts that returned a TupleId of page n
WrittenOn(n) == {i \in 1..Len(hist) : hist[i].tid.page_num = n}

\* C29: in every heap page produced by inserts and removes the slot array is
\* contiguous from the end of the header, num_slots is the number of line
\* pointers written, and no line pointer lies in the bytes of a stored tuple
\* body: the array of num_slots line pointers ends at or before the body of
\* every tuple a line pointer still refers to.
C29_SlotArrayApart ==
    \A n \in HeapPages :
        /\ PageOf(n).num_slots = Cardinality(WrittenOn(n))
        /\ \A i \in WrittenOn(n) : hist[i].tid.slot_num < PageOf(n).num_slots
        /\ \A i \in 0..(PageOf(n).num_slots - 1) :
               SlotAt(PageOf(n), i) # 0
                   => SlotAddr(PageOf(n).num_slots) <= SlotAt(PageOf(n), i)


(***************************************************************************)
(* Executor-level behaviours: the sessions send statements, each executed  *)
(* by its session's QueryExecutor                                          *)
(***************************************************************************)
MaxStmts == 3

TxtX == <<120>>

CreateT == Stmt("CreateTable", "t", <<>>, <<"BIGINT">>, <<>>)

InsertT(v) == Stmt("Insert", "t", <<<<v>>>>, <<>>, <<>>)

\* the statements a session sends; table u is never created
Statements ==
    {Stmt("TransactionBegin", "", <<>>, <<>>, <<>>),
     Stmt("TransactionCommit", "", <<>>, <<>>, <<>>),
     Stmt("TransactionRollback", "", <<>>, <<>>, <<>>),
     Stmt("Select", "t", <<>>, <<ColumnExpr("c1")>>, <<>>),
     Stmt("Select", "u", <<>>, <<ColumnExpr("c1")>>, <<>>),
     InsertT(make_int64(7)),
     InsertT(make_text(TxtX)),
     Stmt("Insert", "u", <<<<make_int64(7)>>>>, <<>>, <<>>),
     Stmt("Delete", "t", <<>>, <<>>, <<>>),
     Stmt("Update", "t", <<>>, <<>>,
          <<[col |-> ColumnExpr("c1"), val |-> ConstantExpr(make_int64(8))]>>),
     CreateT,
     Stmt("DropTable", "t", <<>>, <<>>, <<>>)}

TransactionControl == {"TransactionBegin", "TransactionCommit", "TransactionRollback"}

\* what the database was loaded with before the sessions connect
BootScripts == {<<>>, <<CreateT>>, <<CreateT, InsertT(make_int64(7))>>}

RECURSIVE RunScript(_, _)
RunScript(e, script) ==
    IF script = <<>> THEN e
    ELSE RunScript(execute(e, 0, Head(script)).e, Tail(script))

Shared ==
    [sm |-> sm, catalog |-> catalog, tm |-> tm, locks |-> locks,
     versions |-> versions]

\* the shared state is e
Loaded(e) ==
    /\ sm = e.sm
    /\ catalog = e.catalog
    /\ tm = e.tm
    /\ locks = e.locks
    /\ versions = e.versions

ExecInit ==
    /\ \E script \in BootScripts :
          Loaded(RunScript([sm |-> [disk |-> [f \in FileNames |-> NoFile],
                                    open |-> {}],
                            catalog |-> NewCatalog,
                            tm |-> NewTransactionManager,
                            locks |-> {}, versions |-> <<>>], script))
    /\ current_txn_ = [s \in Sessions |-> 0]
    /\ errored = {}
    /\ last = NoLast
    /\ stmts = 0
    /\ index = btree_create
    /\ inserted = <<>>
    /\ reply = NoReply
    /\ oids = <<>>
    /\ parsed = NoParse
    /\ server = NewServer
    /\ conns = <<>>
    /\ threads = <<>>
    /\ plan = <<>>
    /\ schema = <<"INT64">>
    /\ hist = <<>>
    /\ ret = NoRet
    /\ ops = 0
    /\ gen = 0

\* the state after session s executed stmt and execute returned r
Executed(s, stmt, r) ==
    /\ sm' = r.e.sm
    /\ catalog' = r.e.catalog
    /\ tm' = r.e.tm
    /\ locks' = r.e.locks
    /\ versions' = r.e.versions
    /\ current_txn_' = [current_txn_ EXCEPT ![s] = r.current_txn_]
    /\ last' = [session |-> s, stmt |-> stmt, result |-> r.result,
                txn |-> r.txn, before |-> current_txn_[s]]
    /\ errored' = IF r.result.error /\ r.txn # 0
                     /\ stmt.type \notin TransactionControl
                  THEN errored \cup {r.txn} ELSE errored

\* session s has its executor execute stmt; a CREATE TABLE is sent only for
\* a table the catalog does not have
Execute(s, stmt) ==
    /\ stmts < MaxStmts
    /\ stmt.type = "CreateTable" =>
          ~Catalog_get_table_by_name(catalog, stmt.table).has_value
    /\ Executed(s, stmt, execute(Shared, current_txn_[s], stmt))
    /\ stmts' = stmts + 1
    /\ UNCHANGED <<heapVars, indexVars, oids, parseVars, netVars, concVars>>

ExecNext == \E s \in Sessions : \E stmt \in Statements : Execute(s, stmt)

ExecSpec == ExecInit /\ [][ExecNext]_vars

(***************************************************************************)
(* Executor-level claims                                                   *)
(***************************************************************************)
\* HeapTable::get of the version v, through the schema the catalog has of
\* its table
GetVersion(m, c, v) ==
    HeapTable_get(m, filename_(v.table),
                  Catalog_get_table_by_name(c, v.table).columns, v.tid).res

\* the transactions aborted by the step
AbortedNow == {t \in 1..Len(tm.txns) :
                  tm.txns[t].state = "Active" /\ tm'.txns[t].state = "Aborted"}

\* C4: after the ROLLBACK of an explicit transaction, or the abort of an
\* implicit one, every row the transaction inserted is no longer returned
\* by get, and every row it deleted or updated is returned again with its
\* old values at its old TupleId.
C4_RollbackRestores ==
    [][\A t \in AbortedNow : \A k \in 1..Len(versions') :
          LET v == versions'[k]
          IN  /\ v.xmin = t => GetVersion(sm', catalog', v).status = "none"
              /\ (v.xmax = t /\ v.xmin # t) =>
                    GetVersion(sm', catalog', v) = [status |-> "ok", values |-> v.values]
      ]_vars

\* whether transaction t sees what transaction x did: x is t itself, or x
\* had committed when t began
Sees(m, t, x) == x = t \/ x \in m.txns[t].snapshot

\* whether the version v is in the snapshot of transaction t
Visible(m, t, v) ==
    /\ Sees(m, t, v.xmin)
    /\ ~(v.xmax # 0 /\ Sees(m, t, v.xmax))

Count(seq, x) == Cardinality({i \in 1..Len(seq) : seq[i] = x})

\* the values of the selected columns of a stored row
Selected(values, columns) ==
    [i \in 1..Len(columns) |-> values[find_column(ColumnNames, columns[i].name)]]

\* C5: a sequential scan on behalf of transaction T returns exactly the row
\* versions of the transactions that committed before T started and T's own:
\* the inserts and deletes of transactions still active, committed after T
\* started or rolled back are not observed.
C5_SnapshotRead ==
    [][(last'.stmt.type = "Select" /\ ~last'.result.error) =>
          LET Mine(v) == v.table = last'.stmt.table /\ Visible(tm', last'.txn, v)
              snapshot == SelectSeq(versions', Mine)
              expected == [k \in 1..Len(snapshot) |->
                              Selected(snapshot[k].values, last'.stmt.columns)]
              rows == last'.result.rows
          IN  /\ Len(rows) = Len(expected)
              /\ \A k \in 1..Len(expected) :
                    Count(rows, expected[k]) = Count(expected, expected[k])
      ]_vars

\* C6: a SELECT, INSERT, UPDATE or DELETE executed while the session has no
\* explicit transaction begins exactly one implicit transaction, which is
\* committed when the statement succeeded and aborted when it ended with an
\* error, raised or returned; current_txn_ is null afterwards.
C6_AutoCommit ==
    [][(last'.stmt.type \in {"Select", "Insert", "Update", "Delete"}
        /\ last'.before = 0) =>
          /\ tm'.next_id = tm.next_id + 1
          /\ Len(tm'.txns) = Len(tm.txns) + 1
          /\ last'.txn = tm.next_id
          /\ tm'.txns[last'.txn].state =
                IF last'.result.error THEN "Aborted" ELSE "Committed"
          /\ current_txn_'[last'.session] = 0
      ]_vars

\* C7: in an explicit transaction a statement that ends with an error marks
\* the transaction Aborted, and every later statement but ROLLBACK fails
\* without reading or modifying a table.
C7_FailFast ==
    [][last'.before # 0 =>
          /\ (last'.result.error /\ last'.stmt.type \notin TransactionControl) =>
                tm'.txns[last'.before].state = "Aborted"
          /\ (last'.before \in errored /\ last'.stmt.type # "TransactionRollback") =>
                (last'.result.error /\ sm' = sm /\ versions' = versions)
      ]_vars

\* everything but the transaction t is as it was
OthersUnchanged(t) ==
    /\ Len(tm'.txns) = Len(tm.txns)
    /\ \A i \in 1..Len(tm.txns) : i # t => tm'.txns[i] = tm.txns[i]
    /\ \A s \in Sessions : s # last'.session => current_txn_'[s] = current_txn_[s]

NothingChanged ==
    /\ tm' = tm
    /\ current_txn_' = current_txn_
    /\ sm' = sm
    /\ locks' = locks

\* C8: BEGIN while the session has an explicit transaction, and COMMIT or
\* ROLLBACK while it has none, return an error and change nothing; BEGIN
\* with none makes current_txn_ a fresh Active transaction; COMMIT or
\* ROLLBACK with one terminates exactly that transaction and resets
\* current_txn_ to null.
C8_TransactionControl ==
    [][LET s == last'.session
           t == last'.before
       IN  /\ last'.stmt.type = "TransactionBegin" =>
                IF t # 0 THEN last'.result.error /\ NothingChanged
                ELSE /\ ~last'.result.error
                     /\ current_txn_'[s] = Len(tm.txns) + 1
                     /\ Len(tm'.txns) = Len(tm.txns) + 1
                     /\ SubSeq(tm'.txns, 1, Len(tm.txns)) = tm.txns
                     /\ tm'.txns[current_txn_'[s]].state = "Active"
                     /\ \A o \in Sessions : o # s => current_txn_'[o] = current_txn_[o]
           /\ last'.stmt.type \in {"TransactionCommit", "TransactionRollback"} =>
                IF t = 0 THEN last'.result.error /\ NothingChanged
                ELSE /\ ~last'.result.error
                     /\ tm.txns[t].state = "Active"
                     /\ tm'.txns[t].state =
                           IF last'.stmt.type = "TransactionCommit"
                           THEN "Committed" ELSE "Aborted"
                     /\ OthersUnchanged(t)
                     /\ current_txn_'[s] = 0
      ]_vars

\* a ROLLBACK has ended the transaction of its session while another
\* session's transaction goes on
C8_Witness ==
    /\ last.stmt.type = "TransactionRollback"
    /\ ~last.result.error
    /\ last.before # 0
    /\ tm.txns[last.before].state = "Aborted"
    /\ current_txn_[last.session] = 0
    /\ \E o \in Sessions : /\ current_txn_[o] # 0
                           /\ tm.txns[current_txn_[o]].state = "Active"

\* the transactions in progress
ActiveTxns == {t \in 1..Len(tm.txns) : tm.txns[t].state = "Active"}

\* the row versions transaction t wrote (inserted, or the new version of an
\* update) or ended (deleted, or the old version of an update)
MutatedBy(t) == {k \in 1..Len(versions) : versions[k].xmin = t \/ versions[k].xmax = t}

\* the key of the lock of a row
RowLock(v) == <<v.table, v.tid.page_num, v.tid.slot_num>>

\* C31: every row a transaction in progress has inserted, updated or
\* deleted is covered by an exclusive lock with the key (table, page, slot)
\* that the transaction holds, and no row was mutated by two transactions
\* that are both in progress.
C31_RowLocksHeld ==
    /\ \A t \in ActiveTxns : \A k \in MutatedBy(t) :
          [key |-> RowLock(versions[k]), owner |-> t] \in locks
    /\ \A t \in ActiveTxns : \A u \in ActiveTxns \ {t} :
          \A k \in MutatedBy(t) : \A j \in MutatedBy(u) :
             RowLock(versions[k]) # RowLock(versions[j])

(***************************************************************************)
(* Query-level behaviours: one session in auto-commit mode creates a table *)
(* (c1 TEXT, c2 INT) or (c1 TEXT, c2 BIGINT), inserts rows and sends       *)
(* SELECT statements, as the execution tests do                            *)
(***************************************************************************)
MaxQueryStmts == 4

TxtUA == <<65>>
TxtUB == <<66>>

QuerySchemas == {<<"TEXT", "INT">>, <<"TEXT", "BIGINT">>}

QueryRows ==
    {<<make_text(TxtUA), make_int64(9)>>, <<make_text(TxtUA), make_int64(10)>>,
     <<make_text(TxtUA), make_int64(100)>>, <<make_text(TxtUB), make_int64(10)>>,
     <<make_text(TxtAPipeB), make_int64(9)>>}

\* SELECT columns FROM t [WHERE where] [GROUP BY group_by] [ORDER BY items] as
\* written: an item of order_by is [expr, desc]
SelectText(columns, where, group_by, order_by) ==
    [Stmt("Select", "t", <<>>, columns, <<>>) EXCEPT
        !.where = where, !.group_by = group_by, !.order_by = order_by]

c1 == ColumnExpr("c1")
c2 == ColumnExpr("c2")

OrderItem(expr, desc) == [expr |-> expr, desc |-> desc]

WhereQueries ==
    {SelectText(<<c1>>, BinaryExpr(c2, "Gt", ConstantExpr(make_int64(9))), <<>>, <<>>),
     SelectText(<<c1, c2>>, BinaryExpr(c1, "Eq", ConstantExpr(make_text(TxtAPipeB))),
                <<>>, <<>>),
     SelectText(<<c2>>, BinaryExpr(c1, "Eq", ConstantExpr(make_text(TxtUA))),
                <<>>, <<>>)}

OrderQueries ==
    {SelectText(<<c2>>, NoExpr, <<>>, <<OrderItem(c2, FALSE)>>),
     SelectText(<<c2>>, NoExpr, <<>>, <<OrderItem(c2, TRUE)>>),
     SelectText(<<c1, c2>>, NoExpr, <<>>, <<OrderItem(c1, FALSE)>>)}

CountSumQuery ==
    SelectText(<<c1, FunctionExpr("COUNT", c2), FunctionExpr("SUM", c2)>>,
               NoExpr, <<c1>>, <<>>)

MinMaxAvgQuery ==
    SelectText(<<c1, FunctionExpr("MIN", c2), FunctionExpr("MAX", c2),
                 FunctionExpr("AVG", c2)>>, NoExpr, <<c1>>, <<>>)

Queries == WhereQueries \cup OrderQueries \cup {CountSumQuery, MinMaxAvgQuery}

\* Parser::parse_statement on a statement as written
parse_statement(text) ==
    IF text.type = "Select"
    THEN [text EXCEPT !.order_by = parse_order_by(@)]
    ELSE text

QueryInit ==
    /\ \E columns \in QuerySchemas :
          Loaded(RunScript([sm |-> [disk |-> [f \in FileNames |-> NoFile],
                                    open |-> {}],
                            catalog |-> NewCatalog,
                            tm |-> NewTransactionManager,
                            locks |-> {}, versions |-> <<>>],
                           <<Stmt("CreateTable", "t", <<>>, columns, <<>>)>>))
    /\ current_txn_ = [s \in Sessions |-> 0]
    /\ errored = {}
    /\ last = NoLast
    /\ stmts = 0
    /\ index = btree_create
    /\ inserted = <<>>
    /\ reply = NoReply
    /\ oids = <<>>
    /\ parsed = NoParse
    /\ server = NewServer
    /\ conns = <<>>
    /\ threads = <<>>
    /\ plan = <<>>
    /\ schema = <<"INT64">>
    /\ hist = <<>>
    /\ ret = NoRet
    /\ ops = 0
    /\ gen = 0

InsertTexts == {Stmt("Insert", "t", <<row>>, <<>>, <<>>) : row \in QueryRows}

DeleteText == Stmt("Delete", "t", <<>>, <<>>, <<>>)

\* CREATE TABLE t (...) once more, t being in the catalog since the start
CreateTexts == {Stmt("CreateTable", "t", <<>>, columns, <<>>) : columns \in QuerySchemas}

\* the session has text parsed and the statement executed
Send(text) ==
    /\ stmts < MaxQueryStmts
    /\ Executed("A", text, execute(Shared, current_txn_["A"], parse_statement(text)))
    /\ stmts' = stmts + 1
    /\ UNCHANGED <<heapVars, indexVars, oids, parseVars, netVars, concVars>>

QueryNext ==
    \E text \in InsertTexts \cup {DeleteText} \cup CreateTexts \cup Queries : Send(text)

QuerySpec == QueryInit /\ [][QueryNext]_vars

(***************************************************************************)
(* Query-level claims                                                      *)
(***************************************************************************)
\* the rows of t inserted and not deleted, in insertion order, which is the
\* order of their TupleIds and so the order of a scan
Stored == SelectSeq(versions, LAMBDA v : v.table = "t" /\ v.xmax = 0)

\* the text of every value of a row
RowText(row) == [i \in 1..Len(row) |-> Value_to_string(row[i])]

\* whether the predicate of the last statement is true of a stored row
Matches(v) ==
    Value_as_bool(Expression_evaluate(last.stmt.where, v.values, ColumnNames))

\* C12: SELECT columns FROM t WHERE p returns exactly one result row for each
\* stored, non-deleted row on which p is true, in scan order, and no row on
\* which p is false or Null, whatever the table holds.
C12_WhereSelectsMatching ==
    (last.stmt \in WhereQueries) =>
        /\ ~last.result.error
        /\ [k \in 1..Len(last.result.rows) |-> RowText(last.result.rows[k])]
               = [k \in 1..Len(SelectSeq(Stored, Matches)) |->
                     RowText(Selected(SelectSeq(Stored, Matches)[k].values,
                                      last.stmt.columns))]

\* whether column c2 of t was declared INT
DeclaredInt == \E t \in catalog.tables_ : t.name = "t" /\ t.columns[2] = "INT32"

\* the number a result value stands for: itself, or the one its text spells
NumberOf(v) == IF Value_is_numeric(v) THEN v.i ELSE stoll(v.s).val.i

\* C13: for a column declared INT, SELECT c2 FROM t ORDER BY c2 returns all
\* stored rows in non-decreasing numeric order of c2 (9 before 10 before
\* 100), the values being read back from the heap as integers.
C13_OrderByNumeric ==
    (DeclaredInt /\ last.stmt = SelectText(<<c2>>, NoExpr, <<>>, <<OrderItem(c2, FALSE)>>)) =>
        /\ ~last.result.error
        /\ Len(last.result.rows) = Len(Stored)
        /\ \A k \in 1..Len(last.result.rows) : Value_is_numeric(last.result.rows[k][1])
        /\ \A k \in 1..(Len(last.result.rows) - 1) :
              NumberOf(last.result.rows[k][1]) <= NumberOf(last.result.rows[k + 1][1])
        /\ \A j \in 1..Len(Stored) :
              Cardinality({k \in 1..Len(last.result.rows) :
                             NumberOf(last.result.rows[k][1]) = Stored[j].values[2].i})
                  = Cardinality({k \in 1..Len(Stored) :
                                   Stored[k].values[2].i = Stored[j].values[2].i})

\* what the last SELECT yields without its ORDER BY: the input of the sort
Unsorted ==
    execute_select(Shared, [last.stmt EXCEPT !.order_by = <<>>], last.txn).result.rows

\* the rows of a sequence whose first value is that of row
SameKey(rows, row) == SelectSeq(rows, LAMBDA r : r[1] = row[1])

\* C14: the direction written in an ORDER BY item reaches the Sort operator:
\* ORDER BY k DESC returns the rows in non-increasing order of k, ORDER BY k
\* and ORDER BY k ASC in non-decreasing order, and rows of equal keys keep
\* their input order.
C14_OrderDirection ==
    (last.stmt \in OrderQueries /\ ~last.result.error) =>
        /\ \A k \in 1..(Len(last.result.rows) - 1) :
              IF last.stmt.order_by[1].desc
              THEN ~Value_lt(last.result.rows[k][1], last.result.rows[k + 1][1])
              ELSE ~Value_lt(last.result.rows[k + 1][1], last.result.rows[k][1])
        /\ \A k \in 1..Len(last.result.rows) :
              SameKey(last.result.rows, last.result.rows[k])
                  = SameKey(Unsorted, last.result.rows[k])

\* the stored rows whose c1 is g, and the sum of their c2
GroupOf(g) == SelectSeq(Stored, LAMBDA v : v.values[1] = g)

RECURSIVE Total(_)
Total(members) ==
    IF members = <<>> THEN 0 ELSE Head(members).values[2].i + Total(Tail(members))

GroupValues == {Stored[k].values[1] : k \in 1..Len(Stored)}

\* the least and the greatest c2 of the stored rows whose c1 is g
Least(g) ==
    CHOOSE n \in {GroupOf(g)[k].values[2].i : k \in 1..Len(GroupOf(g))} :
        \A k \in 1..Len(GroupOf(g)) : n <= GroupOf(g)[k].values[2].i

Greatest(g) ==
    CHOOSE n \in {GroupOf(g)[k].values[2].i : k \in 1..Len(GroupOf(g))} :
        \A k \in 1..Len(GroupOf(g)) : n >= GroupOf(g)[k].values[2].i

\* C15: SELECT c1, COUNT(c2), SUM(c2) FROM t GROUP BY c1 has exactly one row
\* for each distinct value of c1 among the rows of t; in it COUNT(c2) is the
\* number of rows of the group and SUM(c2) the sum of c2 over them; rows fall
\* into the same group only when their c1 is equal.
C15_CountAndSum ==
    (last.stmt = CountSumQuery) =>
        /\ ~last.result.error
        /\ Len(last.result.rows) = Cardinality(GroupValues)
        /\ \A g \in GroupValues :
              \E k \in 1..Len(last.result.rows) :
                 /\ Value_to_string(last.result.rows[k][1]) = Value_to_string(g)
                 /\ Value_is_numeric(last.result.rows[k][2])
                 /\ last.result.rows[k][2].i = Len(GroupOf(g))
                 /\ Value_is_numeric(last.result.rows[k][3])
                 /\ last.result.rows[k][3].i = Total(GroupOf(g))

\* C16: in the row of every group MIN(c2) is the least c2 of the group's
\* rows, MAX(c2) the greatest and AVG(c2) their arithmetic mean, the sum
\* divided by the count.
C16_MinMaxAvg ==
    (last.stmt = MinMaxAvgQuery) =>
        /\ ~last.result.error
        /\ Len(last.result.rows) = Cardinality(GroupValues)
        /\ \A g \in GroupValues :
              \E k \in 1..Len(last.result.rows) :
                 /\ Value_to_string(last.result.rows[k][1]) = Value_to_string(g)
                 /\ \A i \in 2..4 : Value_is_numeric(last.result.rows[k][i])
                 /\ last.result.rows[k][2].i = Least(g)
                 /\ last.result.rows[k][3].i = Greatest(g)
                 /\ last.result.rows[k][4].i * Len(GroupOf(g)) = Total(GroupOf(g))

\* the tables of a name in a catalog, and the rows a scan of table t returns
TablesNamed(c, table_name) == {t \in c.tables_ : t.name = table_name}
RowsOf(m, c) == FullScan(m, filename_("t"), Catalog_get_table_by_name(c, "t").columns)

\* C21: CREATE TABLE with the name of a table that already exists fails with
\* an error and changes nothing: the catalog still holds exactly one table of
\* that name with its original oid and columns, and every row stored in the
\* existing table is still returned by a scan.
C21_DuplicateCreateFails ==
    [][(stmts' = stmts + 1 /\ last'.stmt \in CreateTexts
        /\ TablesNamed(catalog, "t") # {})
       => /\ last'.result.error
          /\ Cardinality(TablesNamed(catalog', "t")) = 1
          /\ TablesNamed(catalog', "t") = TablesNamed(catalog, "t")
          /\ RowsOf(sm', catalog') = RowsOf(sm, catalog)]_vars

(***************************************************************************)
(* Index-level behaviours: one index created by btree_create, then         *)
(* inserts, searches and range scans, as the index test calls them          *)
(***************************************************************************)
MaxIndexInserts == 3

IndexKeys == {10, 20, 30}

\* the key every entry of a bulk load has
FillKey == 10

Bounds == {NoKey, Key(10), Key(20)}

BTreeInit ==
    /\ index = btree_create
    /\ inserted = <<>>
    /\ reply = NoReply
    /\ oids = <<>>
    /\ parsed = NoParse
    /\ server = NewServer
    /\ conns = <<>>
    /\ threads = <<>>
    /\ plan = <<>>
    /\ sm = [disk |-> [f \in FileNames |-> NoFile], open |-> {}]
    /\ schema = <<"INT64">>
    /\ hist = <<>>
    /\ ret = NoRet
    /\ ops = 0
    /\ gen = 0
    /\ catalog = NewCatalog
    /\ tm = NewTransactionManager
    /\ locks = {}
    /\ current_txn_ = [s \in Sessions |-> 0]
    /\ versions = <<>>
    /\ errored = {}
    /\ last = NoLast
    /\ stmts = 0

\* the single inserts made so far, and the inserts of the bulk load
Singles == {i \in 1..Len(inserted) : inserted[i].tuple_id.page_num = 1}
Bulk == {i \in 1..Len(inserted) : inserted[i].tuple_id.page_num = 2}

\* the bulk load is in its loop
Loading == 0 < Cardinality(Bulk) /\ Cardinality(Bulk) < BTREE_MAX_KEYS_PER_PAGE

\* one call btree_insert(index, key, tuple_id) and its record in the history
Inserted(r, key, tuple_id) ==
    /\ index' = r.index
    /\ inserted' = Append(inserted, [key |-> key, tuple_id |-> tuple_id, ret |-> r.ret])
    /\ reply' = [NoReply EXCEPT !.op = "insert", !.key = Key(key)]
    /\ UNCHANGED <<sm, heapVars, execVars, oids, parseVars, netVars, concVars>>

\* btree_insert(index, key, tid), tid being the id of a new heap tuple
IndexInsert(key) ==
    /\ ~Loading /\ reply.done
    /\ Cardinality(Singles) < MaxIndexInserts
    /\ Inserted(btree_insert(index, key, TupleId(1, Cardinality(Singles) + 1)),
                key, TupleId(1, Cardinality(Singles) + 1))

\* one turn of the loop of a bulk load, which makes as many inserts as a page
\* holds keys, all of one key
IndexLoad ==
    /\ reply.done
    /\ Cardinality(Bulk) < BTREE_MAX_KEYS_PER_PAGE
    /\ Inserted(btree_insert(index, FillKey, TupleId(2, Cardinality(Bulk) + 1)),
                FillKey, TupleId(2, Cardinality(Bulk) + 1))

IndexSearch(key) ==
    /\ ~Loading /\ reply.done
    /\ reply' = [NoReply EXCEPT !.op = "search", !.key = Key(key),
                                !.tids = btree_search(index, key)]
    /\ UNCHANGED <<index, inserted, sm, heapVars, execVars, oids, parseVars, netVars, concVars>>

\* scan = btree_begin_scan_range(index, min_key, max_key)
IndexBeginScan(min_key, max_key) ==
    /\ ~Loading /\ reply.done
    /\ reply' = [NoReply EXCEPT !.op = "scan", !.done = FALSE,
                                !.scan = btree_begin_scan_range(min_key, max_key)]
    /\ UNCHANGED <<index, inserted, sm, heapVars, execVars, oids, parseVars, netVars, concVars>>

\* what one call of btree_scan_next leaves: the cursor, and the tuple id
\* returned added to those read; NULL ends the caller's loop
Scanned(r) ==
    /\ reply' = [reply EXCEPT !.scan = r.scan, !.done = ~r.found,
                              !.tids = IF r.found THEN Append(@, r.result) ELSE @]
    /\ UNCHANGED <<index, inserted, sm, heapVars, execVars, oids, parseVars, netVars, concVars>>

\* while ((tid = btree_scan_next(scan)) != NULL): one turn
IndexScanNext ==
    /\ reply.op = "scan" /\ ~reply.done
    /\ Scanned(btree_scan_next(index, reply.scan))

BTreeNext ==
    \/ \E key \in IndexKeys : IndexInsert(key)
    \/ IndexLoad
    \/ \E key \in IndexKeys \cup {40} : IndexSearch(key)
    \/ \E min_key \in Bounds : \E max_key \in Bounds : IndexBeginScan(min_key, max_key)
    \/ IndexScanNext

BTreeSpec == BTreeInit /\ [][BTreeNext]_vars

(***************************************************************************)
(* Index claims                                                            *)
(***************************************************************************)
\* the tuple ids a sequence of them holds
TidsOf(tids) == {tids[i] : i \in 1..Len(tids)}

\* the tuple ids inserted with a key
InsertedWith(k) == {inserted[i].tuple_id : i \in {j \in 1..Len(inserted) : inserted[j].key = k}}

\* C17: after any sequence of index inserts, in any key order, search(k)
\* returns exactly the tuple ids that were inserted with a key equal to k,
\* all of them when k was inserted more than once, and nothing for a key
\* that was never inserted.
C17_SearchReturnsAll ==
    reply.op = "search" => TidsOf(reply.tids) = InsertedWith(reply.key.key)

\* the key a tuple id was inserted with
KeyOf(tid) == inserted[CHOOSE i \in 1..Len(inserted) : inserted[i].tuple_id = tid].key

\* a key lies within the bounds of a scan
InRange(k, scan) ==
    /\ scan.min_key.null \/ scan.min_key.key <= k
    /\ scan.max_key.null \/ k <= scan.max_key.key

\* the keys of every page are in non-decreasing order
PagesOrdered ==
    \A p \in 1..Len(index.file) :
       \A i, j \in 1..Len(index.file[p].entries) :
          i < j => index.file[p].entries[i].key <= index.file[p].entries[j].key

\* C18: after arbitrary interleaved index inserts, a range scan with bounds
\* [min, max], either bound possibly absent, yields exactly the tuple ids
\* whose keys lie in [min, max], each once, in non-decreasing key order; and
\* the keys stored in each page are in non-decreasing order after every
\* insert.
C18_RangeScanOrdered ==
    /\ PagesOrdered
    /\ (reply.op = "scan" /\ reply.done) =>
          /\ TidsOf(reply.tids)
                = {inserted[i].tuple_id :
                     i \in {j \in 1..Len(inserted) : InRange(inserted[j].key, reply.scan)}}
          /\ Cardinality(TidsOf(reply.tids)) = Len(reply.tids)
          /\ \A i, j \in 1..Len(reply.tids) :
                i < j => KeyOf(reply.tids[i]) <= KeyOf(reply.tids[j])

\* the entries of all pages of the index
EntriesOf(idx) ==
    UNION {{idx.file[p].entries[i] : i \in 1..Len(idx.file[p].entries)} :
             p \in 1..Len(idx.file)}

\* C19: an index insert that reports success has stored its entry, also when
\* the page that should receive the key already holds
\* BTREE_MAX_KEYS_PER_PAGE keys: every (key, tid) whose insert returned
\* success is in a page of the index, for any number of inserts.
C19_InsertStores ==
    \A i \in 1..Len(inserted) :
       inserted[i].ret = 0
       => [key |-> inserted[i].key, tuple_id |-> inserted[i].tuple_id] \in EntriesOf(index)

(***************************************************************************)
(* Catalog-level behaviours: create_table, create_index, drop_table and    *)
(* drop_index on one Catalog                                               *)
(***************************************************************************)
MaxCreates == 4

\* a catalog on which create_table and drop_table of the table created have
\* been called in turn 2^32 - 3 times: no table, next_oid_ = 2^32 - 2
ChurnedCatalog == [NewCatalog EXCEPT !.next_oid_ = oid_t(U16 - 1, U16 - 2)]

TableNames == {"t", "u"}
IndexNames == {"i"}

\* the oids a caller can name: those returned so far, and one never returned
KnownOids == {oids[i].oid : i \in 1..Len(oids)} \cup {oid_t(0, 9)}

CatalogInit ==
    /\ catalog \in {NewCatalog, ChurnedCatalog}
    /\ oids = <<>>
    /\ parsed = NoParse
    /\ server = NewServer
    /\ conns = <<>>
    /\ threads = <<>>
    /\ plan = <<>>
    /\ index = btree_create
    /\ inserted = <<>>
    /\ reply = NoReply
    /\ sm = [disk |-> [f \in FileNames |-> NoFile], open |-> {}]
    /\ schema = <<"INT64">>
    /\ hist = <<>>
    /\ ret = NoRet
    /\ ops = 0
    /\ gen = 0
    /\ tm = NewTransactionManager
    /\ locks = {}
    /\ current_txn_ = [s \in Sessions |-> 0]
    /\ versions = <<>>
    /\ errored = {}
    /\ last = NoLast
    /\ stmts = 0

\* all but the catalog and the history of oids
notCatalog == <<sm, heapVars, tm, locks, current_txn_, versions, errored, last, stmts,
                indexVars, parseVars, netVars, concVars>>

\* create_table(table_name, columns)
CreateTable(table_name) ==
    /\ Len(oids) < MaxCreates
    /\ catalog' = Catalog_create_table(catalog, table_name, <<"c1">>).cat
    /\ oids' = Append(oids, [oid |-> Catalog_create_table(catalog, table_name,
                                                          <<"c1">>).table_id,
                             of |-> "table"])
    /\ UNCHANGED notCatalog

\* create_index(index_name, table_id, ...): 0 is the error return
CreateIndex(index_name) ==
    \E table_id \in KnownOids :
       /\ Len(oids) < MaxCreates
       /\ catalog' = Catalog_create_index(catalog, index_name, table_id).cat
       /\ oids' = IF Catalog_get_table(catalog, table_id).has_value
                  THEN Append(oids, [oid |-> Catalog_create_index(catalog, index_name,
                                                                  table_id).index_id,
                                     of |-> "index"])
                  ELSE oids
       /\ UNCHANGED notCatalog

\* drop_table(table_id)
DropTable ==
    \E table_id \in KnownOids :
       /\ catalog' = Catalog_drop_table(catalog, table_id)
       /\ UNCHANGED <<oids, notCatalog>>

\* drop_index(index_id)
DropIndex ==
    \E index_id \in KnownOids :
       /\ \/ \E holder \in Holders(catalog, index_id) :
                catalog' = Catalog_drop_index(catalog, index_id, holder).cat
          \/ Holders(catalog, index_id) = {} /\ catalog' = catalog
       /\ UNCHANGED <<oids, notCatalog>>

CatalogNext ==
    \/ \E table_name \in TableNames : CreateTable(table_name)
    \/ \E index_name \in IndexNames : CreateIndex(index_name)
    \/ DropTable
    \/ DropIndex

CatalogSpec == CatalogInit /\ [][CatalogNext]_vars

(***************************************************************************)
(* Catalog claims                                                          *)
(***************************************************************************)
\* C20: after any sequence of create_table, create_index, drop_table and
\* drop_index calls on one Catalog, every oid returned by a successful create
\* is at least 1 and strictly greater than every oid returned earlier, so
\* that no two tables or indexes, existing or dropped, share an oid.
C20_OidsIncrease ==
    \A i \in 1..Len(oids) :
       /\ Oid_lt(oid_t(0, 0), oids[i].oid)
       /\ \A j \in 1..(i - 1) : Oid_lt(oids[j].oid, oids[i].oid)

(***************************************************************************)
(* The lexer, the parser, to_string and evaluate on texts and expressions  *)
(***************************************************************************)
\* statements of every form, with their keywords in upper case
SqlStatements ==
    {
\* SELECT a FROM t
     <<83, 69, 76, 69, 67, 84, 32, 97, 32, 70, 82, 79, 77, 32, 116>>,
\* SELECT DISTINCT a, b FROM t WHERE a = 1 AND b <> 'x'
     <<83, 69, 76, 69, 67, 84, 32, 68, 73, 83, 84, 73, 78, 67, 84, 32, 97, 44, 32, 98, 32, 70, 82, 79, 77, 32, 116, 32, 87, 72, 69, 82, 69, 32, 97, 32, 61, 32, 49, 32, 65, 78, 68, 32, 98, 32, 60, 62, 32, 39, 120, 39>>,
\* SELECT a FROM t WHERE a + b * c > 2
     <<83, 69, 76, 69, 67, 84, 32, 97, 32, 70, 82, 79, 77, 32, 116, 32, 87, 72, 69, 82, 69, 32, 97, 32, 43, 32, 98, 32, 42, 32, 99, 32, 62, 32, 50>>,
\* SELECT a FROM t WHERE (a + b) * c > 2
     <<83, 69, 76, 69, 67, 84, 32, 97, 32, 70, 82, 79, 77, 32, 116, 32, 87, 72, 69, 82, 69, 32, 40, 97, 32, 43, 32, 98, 41, 32, 42, 32, 99, 32, 62, 32, 50>>,
\* SELECT a FROM t WHERE a - (b - c) = 0
     <<83, 69, 76, 69, 67, 84, 32, 97, 32, 70, 82, 79, 77, 32, 116, 32, 87, 72, 69, 82, 69, 32, 97, 32, 45, 32, 40, 98, 32, 45, 32, 99, 41, 32, 61, 32, 48>>,
\* SELECT a FROM t WHERE NOT (a = 1 OR b = 2)
     <<83, 69, 76, 69, 67, 84, 32, 97, 32, 70, 82, 79, 77, 32, 116, 32, 87, 72, 69, 82, 69, 32, 78, 79, 84, 32, 40, 97, 32, 61, 32, 49, 32, 79, 82, 32, 98, 32, 61, 32, 50, 41>>,
\* SELECT a FROM t WHERE a = 1 OR b = 2 AND c = 3
     <<83, 69, 76, 69, 67, 84, 32, 97, 32, 70, 82, 79, 77, 32, 116, 32, 87, 72, 69, 82, 69, 32, 97, 32, 61, 32, 49, 32, 79, 82, 32, 98, 32, 61, 32, 50, 32, 65, 78, 68, 32, 99, 32, 61, 32, 51>>,
\* SELECT a, COUNT(b) FROM t GROUP BY a HAVING COUNT(b) > 1 ORDER BY a DESC, b LIMIT 10 OFFSET 5
     <<83, 69, 76, 69, 67, 84, 32, 97, 44, 32, 67, 79, 85, 78, 84, 40, 98, 41, 32, 70, 82, 79, 77, 32, 116, 32, 71, 82, 79, 85, 80, 32, 66, 89, 32, 97, 32, 72, 65, 86, 73, 78, 71, 32, 67, 79, 85, 78, 84, 40, 98, 41, 32, 62, 32, 49, 32, 79, 82, 68, 69, 82, 32, 66, 89, 32, 97, 32, 68, 69, 83, 67, 44, 32, 98, 32, 76, 73, 77, 73, 84, 32, 49, 48, 32, 79, 70, 70, 83, 69, 84, 32, 53>>,
\* SELECT COUNT(DISTINCT a) FROM t
     <<83, 69, 76, 69, 67, 84, 32, 67, 79, 85, 78, 84, 40, 68, 73, 83, 84, 73, 78, 67, 84, 32, 97, 41, 32, 70, 82, 79, 77, 32, 116>>,
\* SELECT -a FROM t
     <<83, 69, 76, 69, 67, 84, 32, 45, 97, 32, 70, 82, 79, 77, 32, 116>>,
\* SELECT +a FROM t
     <<83, 69, 76, 69, 67, 84, 32, 43, 97, 32, 70, 82, 79, 77, 32, 116>>,
\* SELECT * FROM t
     <<83, 69, 76, 69, 67, 84, 32, 42, 32, 70, 82, 79, 77, 32, 116>>,
\* SELECT 'it\'s' FROM t
     <<83, 69, 76, 69, 67, 84, 32, 39, 105, 116, 92, 39, 115, 39, 32, 70, 82, 79, 77, 32, 116>>,
\* SELECT a -- the column (line end)  FROM t
     <<83, 69, 76, 69, 67, 84, 32, 97, 32, 45, 45, 32, 116, 104, 101, 32, 99, 111, 108, 117, 109, 110, 10, 32, 70, 82, 79, 77, 32, 116>>,
\* SELECT a FROM t WHERE a != 1
     <<83, 69, 76, 69, 67, 84, 32, 97, 32, 70, 82, 79, 77, 32, 116, 32, 87, 72, 69, 82, 69, 32, 97, 32, 33, 61, 32, 49>>,
\* INSERT INTO t VALUES (1, 'a')
     <<73, 78, 83, 69, 82, 84, 32, 73, 78, 84, 79, 32, 116, 32, 86, 65, 76, 85, 69, 83, 32, 40, 49, 44, 32, 39, 97, 39, 41>>,
\* INSERT INTO t (a, b) VALUES (1, 'a'), (2, 'b')
     <<73, 78, 83, 69, 82, 84, 32, 73, 78, 84, 79, 32, 116, 32, 40, 97, 44, 32, 98, 41, 32, 86, 65, 76, 85, 69, 83, 32, 40, 49, 44, 32, 39, 97, 39, 41, 44, 32, 40, 50, 44, 32, 39, 98, 39, 41>>,
\* UPDATE t SET a = a + 1, b = 'x' WHERE a < 5
     <<85, 80, 68, 65, 84, 69, 32, 116, 32, 83, 69, 84, 32, 97, 32, 61, 32, 97, 32, 43, 32, 49, 44, 32, 98, 32, 61, 32, 39, 120, 39, 32, 87, 72, 69, 82, 69, 32, 97, 32, 60, 32, 53>>,
\* UPDATE t SET a = 1
     <<85, 80, 68, 65, 84, 69, 32, 116, 32, 83, 69, 84, 32, 97, 32, 61, 32, 49>>,
\* DELETE FROM t WHERE a = 1
     <<68, 69, 76, 69, 84, 69, 32, 70, 82, 79, 77, 32, 116, 32, 87, 72, 69, 82, 69, 32, 97, 32, 61, 32, 49>>,
\* DELETE FROM t
     <<68, 69, 76, 69, 84, 69, 32, 70, 82, 79, 77, 32, 116>>,
\* CREATE TABLE t (id INT PRIMARY KEY, name VARCHAR(20) NOT NULL UNIQUE, x TEXT)
     <<67, 82, 69, 65, 84, 69, 32, 84, 65, 66, 76, 69, 32, 116, 32, 40, 105, 100, 32, 73, 78, 84, 32, 80, 82, 73, 77, 65, 82, 89, 32, 75, 69, 89, 44, 32, 110, 97, 109, 101, 32, 86, 65, 82, 67, 72, 65, 82, 40, 50, 48, 41, 32, 78, 79, 84, 32, 78, 85, 76, 76, 32, 85, 78, 73, 81, 85, 69, 44, 32, 120, 32, 84, 69, 88, 84, 41>>,
\* CREATE TABLE IF NOT EXISTS name (id INT)
     <<67, 82, 69, 65, 84, 69, 32, 84, 65, 66, 76, 69, 32, 73, 70, 32, 78, 79, 84, 32, 69, 88, 73, 83, 84, 83, 32, 110, 97, 109, 101, 32, 40, 105, 100, 32, 73, 78, 84, 41>>,
\* CREATE INDEX i ON t (a)
     <<67, 82, 69, 65, 84, 69, 32, 73, 78, 68, 69, 88, 32, 105, 32, 79, 78, 32, 116, 32, 40, 97, 41>>,
\* DROP TABLE t
     <<68, 82, 79, 80, 32, 84, 65, 66, 76, 69, 32, 116>>,
\* DROP INDEX i
     <<68, 82, 79, 80, 32, 73, 78, 68, 69, 88, 32, 105>>,
\* BEGIN
     <<66, 69, 71, 73, 78>>,
\* COMMIT
     <<67, 79, 77, 77, 73, 84>>,
\* ROLLBACK
     <<82, 79, 76, 76, 66, 65, 67, 75>>
    }

\* statements and keywords in lower and in mixed case
LowerCase ==
    {
\* select a from t
     <<115, 101, 108, 101, 99, 116, 32, 97, 32, 102, 114, 111, 109, 32, 116>>,
\* Select a From t
     <<83, 101, 108, 101, 99, 116, 32, 97, 32, 70, 114, 111, 109, 32, 116>>,
\* select count(a) from t where a = 1 order by a desc
     <<115, 101, 108, 101, 99, 116, 32, 99, 111, 117, 110, 116, 40, 97, 41, 32, 102, 114, 111, 109, 32, 116, 32, 119, 104, 101, 114, 101, 32, 97, 32, 61, 32, 49, 32, 111, 114, 100, 101, 114, 32, 98, 121, 32, 97, 32, 100, 101, 115, 99>>,
\* insert into t values (1)
     <<105, 110, 115, 101, 114, 116, 32, 105, 110, 116, 111, 32, 116, 32, 118, 97, 108, 117, 101, 115, 32, 40, 49, 41>>,
\* update t set a = 1
     <<117, 112, 100, 97, 116, 101, 32, 116, 32, 115, 101, 116, 32, 97, 32, 61, 32, 49>>,
\* delete from t where a = 1
     <<100, 101, 108, 101, 116, 101, 32, 102, 114, 111, 109, 32, 116, 32, 119, 104, 101, 114, 101, 32, 97, 32, 61, 32, 49>>,
\* create table t (id int)
     <<99, 114, 101, 97, 116, 101, 32, 116, 97, 98, 108, 101, 32, 116, 32, 40, 105, 100, 32, 105, 110, 116, 41>>,
\* begin
     <<98, 101, 103, 105, 110>>,
\* select
     <<115, 101, 108, 101, 99, 116>>,
\* Select
     <<83, 101, 108, 101, 99, 116>>,
\* SELECT
     <<83, 69, 76, 69, 67, 84>>,
\* varchar
     <<118, 97, 114, 99, 104, 97, 114>>,
\* Exists
     <<69, 120, 105, 115, 116, 115>>
    }

\* numeric literals
Numbers ==
    {
\* 42
     <<52, 50>>,
\* 007
     <<48, 48, 55>>,
\* 3.14
     <<51, 46, 49, 52>>,
\* 0.5
     <<48, 46, 53>>,
\* 10.25
     <<49, 48, 46, 50, 53>>,
\* 1.5e3
     <<49, 46, 53, 101, 51>>,
\* 2.5E-1
     <<50, 46, 53, 69, 45, 49>>
    }

\* SELECT literal FROM t
SelectOf(literal) == <<83, 69, 76, 69, 67, 84, 32>> \o literal \o <<32, 70, 82, 79, 77, 32, 116>>

Texts == SqlStatements \cup LowerCase \cup Numbers \cup {SelectOf(literal) : literal \in Numbers}

\* TRUE, FALSE and NULL as constants
Truths == {ConstantExpr(make_bool(TRUE)), ConstantExpr(make_bool(FALSE)),
           ConstantExpr(make_null)}

\* x AND y, x OR y and NOT x on them
Expressions ==
    Truths
    \cup {BinaryExpr(x, op, y) : x \in Truths, y \in Truths, op \in {"And", "Or"}}
    \cup {UnaryExpr("Not", x) : x \in Truths}

ParseInit ==
    /\ parsed = NoParse
    /\ server = NewServer
    /\ conns = <<>>
    /\ threads = <<>>
    /\ plan = <<>>
    /\ oids = <<>>
    /\ catalog = NewCatalog
    /\ index = btree_create
    /\ inserted = <<>>
    /\ reply = NoReply
    /\ sm = [disk |-> [f \in FileNames |-> NoFile], open |-> {}]
    /\ schema = <<"INT64">>
    /\ hist = <<>>
    /\ ret = NoRet
    /\ ops = 0
    /\ gen = 0
    /\ tm = NewTransactionManager
    /\ locks = {}
    /\ current_txn_ = [s \in Sessions |-> 0]
    /\ versions = <<>>
    /\ errored = {}
    /\ last = NoLast
    /\ stmts = 0

\* all but the record of the last call
notParsed == <<sm, heapVars, execVars, indexVars, oids, netVars, concVars>>

\* Lexer(sql), next_token() up to End
Tokenize(sql) ==
    /\ parsed' = [NoParse EXCEPT !.op = "tokenize", !.sql = sql, !.tokens = Tokens(sql, 0)]
    /\ UNCHANGED notParsed

\* the record of a parse of the tokens of sql
Parsed(sql, tokens) ==
    [NoParse EXCEPT !.op = "parse", !.sql = sql, !.tokens = tokens,
                    !.first = ParseTokens(tokens)]

\* Parser(std::make_unique<Lexer>(sql)).parse_statement()
Parse(sql) ==
    /\ parsed' = Parsed(sql, Tokens(sql, 0))
    /\ UNCHANGED notParsed

\* the record of a parse of the text to_string gave
Reparsed(sql, tokens) ==
    [parsed EXCEPT !.op = "reparse", !.sql = sql, !.tokens = tokens,
                   !.again = ParseTokens(tokens)]

\* the second parse, of the to_string of the statement
ReparseOf(sql) == Reparsed(sql, Tokens(sql, 0))

\* parse_statement on the to_string of the statement the last parse returned
RoundTrip ==
    /\ parsed.op = "parse"
    /\ parsed.first.ok
    /\ parsed.first.node.type \in Printable
    /\ parsed' = ReparseOf(Statement_to_string(parsed.first.node))
    /\ UNCHANGED notParsed

\* x.evaluate()
Evaluate(x) ==
    /\ parsed' = [NoParse EXCEPT !.op = "evaluate", !.expr = x, !.value = evaluate(x)]
    /\ UNCHANGED notParsed

ParseNext ==
    \/ \E sql \in Texts : Tokenize(sql)
    \/ \E sql \in Texts : Parse(sql)
    \/ RoundTrip
    \/ \E x \in Expressions : Evaluate(x)

ParseSpec == ParseInit /\ [][ParseNext]_vars

(***************************************************************************)
(* Parser-level behaviours                                                 *)
(***************************************************************************)
\* C22: for every text parse_statement accepts, parse_statement on the
\* to_string of the statement returns a statement, and that statement is
\* equal to the first: the same kind, the same clauses, the same expression
\* trees.
C22_RoundTrip ==
    parsed.op = "reparse"
    => /\ parsed.again.ok
       /\ parsed.again.node = parsed.first.node

\* the statement forms and the kind of statement each is
ListedForms ==
    {[sql |-> <<83, 69, 76, 69, 67, 84, 32, 97, 32, 70, 82, 79, 77, 32, 116>>, type |-> "Select"],
     [sql |-> <<73, 78, 83, 69, 82, 84, 32, 73, 78, 84, 79, 32, 116, 32, 86, 65, 76, 85, 69, 83, 32, 40, 49, 44, 32, 39, 97, 39, 41>>, type |-> "Insert"],
     [sql |-> <<85, 80, 68, 65, 84, 69, 32, 116, 32, 83, 69, 84, 32, 97, 32, 61, 32, 49>>, type |-> "Update"],
     [sql |-> <<68, 69, 76, 69, 84, 69, 32, 70, 82, 79, 77, 32, 116>>, type |-> "Delete"],
     [sql |-> <<67, 82, 69, 65, 84, 69, 32, 84, 65, 66, 76, 69, 32, 116, 32, 40, 105, 100, 32, 73, 78, 84, 32, 80, 82, 73, 77, 65, 82, 89, 32, 75, 69, 89, 44, 32, 110, 97, 109, 101, 32, 86, 65, 82, 67, 72, 65, 82, 40, 50, 48, 41, 32, 78, 79, 84, 32, 78, 85, 76, 76, 32, 85, 78, 73, 81, 85, 69, 44, 32, 120, 32, 84, 69, 88, 84, 41>>,
      type |-> "CreateTable"],
     [sql |-> <<67, 82, 69, 65, 84, 69, 32, 84, 65, 66, 76, 69, 32, 73, 70, 32, 78, 79, 84, 32, 69, 88, 73, 83, 84, 83, 32, 110, 97, 109, 101, 32, 40, 105, 100, 32, 73, 78, 84, 41>>, type |-> "CreateTable"],
     [sql |-> <<66, 69, 71, 73, 78>>, type |-> "TransactionBegin"],
     [sql |-> <<67, 79, 77, 77, 73, 84>>, type |-> "TransactionCommit"],
     [sql |-> <<82, 79, 76, 76, 66, 65, 67, 75>>, type |-> "TransactionRollback"],
     [sql |-> <<68, 82, 79, 80, 32, 84, 65, 66, 76, 69, 32, 116>>, type |-> "DropTable"],
     [sql |-> <<68, 82, 79, 80, 32, 73, 78, 68, 69, 88, 32, 105>>, type |-> "DropIndex"],
     [sql |-> <<67, 82, 69, 65, 84, 69, 32, 73, 78, 68, 69, 88, 32, 105, 32, 79, 78, 32, 116, 32, 40, 97, 41>>, type |-> "CreateIndex"]}

\* C23: parse_statement returns a statement of the matching kind for every
\* listed form, DROP TABLE, DROP INDEX and CREATE INDEX among them, and for
\* CREATE TABLE IF NOT EXISTS name (...) a CreateTable statement of the
\* table name 'name'.
C23_EveryFormParses ==
    \A form \in ListedForms :
        (parsed.op = "parse" /\ parsed.sql = form.sql)
        => /\ parsed.first.ok
           /\ parsed.first.node.type = form.type
           /\ form.sql = <<67, 82, 69, 65, 84, 69, 32, 84, 65, 66, 76, 69, 32, 73, 70, 32, 78, 79, 84, 32, 69, 88, 73, 83, 84, 83, 32, 110, 97, 109, 101, 32, 40, 105, 100, 32, 73, 78, 84, 41>>
              => parsed.first.node.table_name = <<110, 97, 109, 101>>

\* the tokens of the same text with its keywords written in upper case
InUpperCase(tokens) ==
    [i \in 1..Len(tokens) |->
        IF tokens[i].type = "Identifier" /\ keywords_find(ToUpper(tokens[i].lexeme)).found
        THEN Token(keywords_find(ToUpper(tokens[i].lexeme)).type, ToUpper(tokens[i].lexeme))
        ELSE tokens[i]]

\* C24: a keyword is recognised in any letter case: the lexer gives every
\* word that is a keyword in upper case the token type of the keyword, never
\* Identifier, and a statement parses to the same statement as with its
\* keywords in upper case.
C24_KeywordsAnyCase ==
    /\ parsed.op \in {"tokenize", "parse"}
       => \A i \in 1..Len(parsed.tokens) :
             parsed.tokens[i].type = InUpperCase(parsed.tokens)[i].type
    /\ parsed.op = "parse" => parsed.first = ParseTokens(InUpperCase(parsed.tokens))

\* a literal has a decimal point
HasDot(literal) == \E i \in 1..Len(literal) : literal[i] = 46

\* the constant a numeric literal stands for
ConstantOf(literal) ==
    IF HasDot(literal) THEN ConstantExpr(make_float64(stod(literal)))
    ELSE ConstantExpr(make_int64(stoll(literal).val.i))

\* C25: a numeric literal is one Number token, with the integer value of
\* its digits, or, with a decimal point, the floating-point value of the
\* whole literal; the parser makes it an integer or a float constant
\* accordingly.
C25_OneNumberToken ==
    \A literal \in Numbers :
        /\ (parsed.op = "tokenize" /\ parsed.sql = literal)
           => /\ Len(parsed.tokens) = 2
              /\ parsed.tokens[1].type = "Number"
              /\ parsed.tokens[2].type = "End"
              /\ IF HasDot(literal)
                 THEN parsed.tokens[1].double_value = stod(literal)
                 ELSE parsed.tokens[1].int64_value = stoll(literal).val.i
        /\ (parsed.op = "parse" /\ parsed.sql = SelectOf(literal))
           => /\ parsed.first.ok
              /\ parsed.first.node.columns = <<ConstantOf(literal)>>

\* C26: the value of x AND TRUE is the value of x for x TRUE, FALSE and
\* NULL; NULL AND TRUE is NULL.
C26_AndTrueIsIdentity ==
    \A x \in Truths :
        (parsed.op = "evaluate"
         /\ parsed.expr = BinaryExpr(x, "And", ConstantExpr(make_bool(TRUE))))
        => parsed.value = evaluate(x)

(***************************************************************************)
(* network::Server (server.cpp, server.hpp): the caller of start and stop, *)
(* the accept thread, one handler thread for every accepted connection,    *)
(* and the clients.  The member functions are defined twice, in the class  *)
(* in server.hpp and again in server.cpp; which definitions a program runs *)
(* is decided by its build, and server.build holds the choice.             *)
(***************************************************************************)
\* number of calls of start() and stop() in one behaviour
MaxCalls == 3

Clients == {1, 2}

\* uint32_t ssl_req[] = {htonl(8), htonl(80877103)}
SSLRequest == <<0, 0, 0, 8, 4, 210, 22, 47>>
\* uint32_t startup[] = {htonl(8), htonl(196608)}
StartupMessage == <<0, 0, 0, 8, 0, 3, 0, 0>>
\* a query with its delimiter
QueryText == <<83, 69, 76, 69, 67, 84, 32, 49, 59>>

\* what a client sends, in this order
Script == <<SSLRequest, StartupMessage, QueryText>>

\* start(): true behind socket, bind and listen, with the accept thread
\* running; false and nothing changed on a running server; false when
\* bind or listen fails (ok is their outcome)
Server_start(s, ok) ==
    IF s.running_ THEN [s EXCEPT !.ret = [op |-> "start", val |-> FALSE]]
    ELSE IF ~ok
    THEN [s EXCEPT !.listen_fd_ = "closed", !.ret = [op |-> "start", val |-> FALSE]]
    ELSE [s EXCEPT !.listen_fd_ = "listening", !.status_ = "Running",
                   !.running_ = TRUE, !.accept_thread_ = "loop",
                   !.ret = [op |-> "start", val |-> TRUE]]

\* stop() up to the join of the accept thread: server.cpp shuts the
\* listening descriptor down and closes it, the class in server.hpp leaves it
Server_stop(s) ==
    IF ~s.running_ THEN [s EXCEPT !.ret = [op |-> "stop", val |-> TRUE]]
    ELSE [s EXCEPT !.status_ = "Stopping", !.running_ = FALSE,
                   !.listen_fd_ = IF s.build = "server.cpp" THEN "closed" ELSE @,
                   !.stop = "join", !.ret = [op |-> "none", val |-> FALSE]]

\* stop() behind accept_thread_.join()
Server_stopped(s) ==
    [s EXCEPT !.status_ = "Stopped", !.stop = "idle", !.accept_thread_ = "none",
              !.ret = [op |-> "stop", val |-> TRUE]]

\* query += buffer, buffer being NUL-terminated behind the bytes read: the
\* bytes up to the first NUL
AppendBuffer(query, buffer) == query \o SubSeq(buffer, 1, NulFrom(buffer, 1) - 1)

\* query.find(';') != npos
HasDelimiter(query) == \E i \in 1..Len(query) : query[i] = 59

\* a connection no client has made
NoConn ==
    [state |-> "none", client_open |-> FALSE, next |-> 1, inbox |-> <<>>,
     handler |-> "none", received |-> <<>>, query |-> <<>>, sent |-> <<>>]

NetInit ==
    /\ server \in {[NewServer EXCEPT !.build = b] : b \in {"server.cpp", "server.hpp"}}
    /\ conns = [c \in Clients |-> NoConn]
    /\ threads = <<>>
    /\ plan = <<>>
    /\ parsed = NoParse
    /\ oids = <<>>
    /\ catalog = NewCatalog
    /\ index = btree_create
    /\ inserted = <<>>
    /\ reply = NoReply
    /\ sm = [disk |-> [f \in FileNames |-> NoFile], open |-> {}]
    /\ schema = <<"INT64">>
    /\ hist = <<>>
    /\ ret = NoRet
    /\ ops = 0
    /\ gen = 0
    /\ tm = NewTransactionManager
    /\ locks = {}
    /\ current_txn_ = [s \in Sessions |-> 0]
    /\ versions = <<>>
    /\ errored = {}
    /\ last = NoLast
    /\ stmts = 0

\* all but the server and the connections
notNet == <<sm, heapVars, execVars, indexVars, oids, parseVars, concVars>>

\* the caller is not inside stop()
Idle == server.stop = "idle" /\ server.calls < MaxCalls

\* server->start()
Start ==
    /\ Idle
    /\ \E ok \in BOOLEAN :
          server' = [Server_start(server, ok) EXCEPT !.calls = @ + 1]
    /\ UNCHANGED <<conns, notNet>>

\* server->stop(), up to the join
Stop ==
    /\ Idle
    /\ server' = [Server_stop(server) EXCEPT !.calls = @ + 1]
    /\ UNCHANGED <<conns, notNet>>

\* accept_thread_.join() returns and stop() with it
StopJoin ==
    /\ server.stop = "join"
    /\ server.accept_thread_ = "done"
    /\ server' = Server_stopped(server)
    /\ UNCHANGED <<conns, notNet>>

\* accept_connections: while (running_.load())
AcceptLoop ==
    /\ server.accept_thread_ = "loop"
    /\ server' = [server EXCEPT !.accept_thread_ = IF server.running_ THEN "accept"
                                                   ELSE "done"]
    /\ UNCHANGED <<conns, notNet>>

\* accept() returns a connection, which gets its handler thread
Accept(c) ==
    /\ server.accept_thread_ = "accept"
    /\ server.listen_fd_ = "listening"
    /\ conns[c].state = "pending"
    /\ conns' = [conns EXCEPT ![c].state = "accepted", ![c].handler = "loop"]
    /\ server' = [server EXCEPT !.accept_thread_ = "loop",
                                !.connections_accepted = @ + 1]
    /\ UNCHANGED notNet

\* accept() returns -1 on the descriptor stop() has shut down and closed:
\* server.cpp leaves the loop when running_ is false, the class in server.hpp
\* tests running_ at the head of the loop
AcceptFails ==
    /\ server.accept_thread_ = "accept"
    /\ server.listen_fd_ = "closed"
    /\ server' = [server EXCEPT !.accept_thread_ =
                     IF server.build = "server.cpp" /\ ~server.running_ THEN "done"
                     ELSE "loop",
                                !.accepts_failed = @ + 1]
    /\ UNCHANGED <<conns, notNet>>

\* handle_connection: while (running_.load()), and close(client_fd) behind
\* the loop
HandlerLoop(c) ==
    /\ conns[c].handler = "loop"
    /\ conns' = IF server.running_ THEN [conns EXCEPT ![c].handler = "recv"]
                ELSE [conns EXCEPT ![c].handler = "done", ![c].state = "closed"]
    /\ UNCHANGED <<server, notNet>>

\* recv returns the bytes of a message: they are counted and appended to
\* the query, which is cleared when it holds a ';'.  Nothing is sent.
HandlerRecv(c) ==
    /\ conns[c].handler = "recv"
    /\ conns[c].inbox # <<>>
    /\ conns' = [conns EXCEPT
                    ![c].inbox = Tail(@),
                    ![c].received = Append(@, Head(conns[c].inbox)),
                    ![c].query = IF HasDelimiter(AppendBuffer(@, Head(conns[c].inbox)))
                                 THEN <<>>
                                 ELSE AppendBuffer(@, Head(conns[c].inbox)),
                    ![c].handler = "loop"]
    /\ server' = [server EXCEPT
                    !.queries_executed =
                        IF HasDelimiter(AppendBuffer(conns[c].query, Head(conns[c].inbox)))
                        THEN @ + 1 ELSE @]
    /\ UNCHANGED notNet

\* recv returns 0 behind the last byte of a client that has closed: break,
\* close(client_fd)
HandlerEnd(c) ==
    /\ conns[c].handler = "recv"
    /\ conns[c].inbox = <<>>
    /\ ~conns[c].client_open
    /\ conns' = [conns EXCEPT ![c].handler = "done", ![c].state = "closed"]
    /\ UNCHANGED <<server, notNet>>

\* connect(sock, addr) == 0: the connection waits to be accepted
ClientConnect(c) ==
    /\ conns[c].state = "none"
    /\ server.listen_fd_ = "listening"
    /\ conns' = [conns EXCEPT ![c].state = "pending", ![c].client_open = TRUE]
    /\ UNCHANGED <<server, notNet>>

\* send(sock, message, n, 0) of the next message of the script
ClientSend(c) ==
    /\ conns[c].client_open
    /\ conns[c].state \in {"pending", "accepted"}
    /\ conns[c].next <= Len(Script)
    /\ conns' = [conns EXCEPT ![c].inbox = Append(@, Script[conns[c].next]),
                              ![c].next = @ + 1]
    /\ UNCHANGED <<server, notNet>>

\* close(sock)
ClientClose(c) ==
    /\ conns[c].client_open
    /\ conns' = [conns EXCEPT ![c].client_open = FALSE]
    /\ UNCHANGED <<server, notNet>>

\* the steps of the threads of the server
ServerStep ==
    \/ StopJoin
    \/ AcceptLoop
    \/ AcceptFails
    \/ \E c \in Clients : Accept(c)
    \/ \E c \in Clients : HandlerLoop(c)
    \/ \E c \in Clients : HandlerRecv(c)
    \/ \E c \in Clients : HandlerEnd(c)

NetNext ==
    \/ Start
    \/ Stop
    \/ ServerStep
    \/ \E c \in Clients : ClientConnect(c)
    \/ \E c \in Clients : ClientSend(c)
    \/ \E c \in Clients : ClientClose(c)

NetSpec == NetInit /\ [][NetNext]_vars

\* every thread of the server that can take a step takes one; no client has
\* to connect, to send or to close, and nobody has to call start or stop
NetLiveSpec == NetSpec /\ WF_vars(ServerStep)

(***************************************************************************)
(* Server-level behaviours                                                 *)
(***************************************************************************)
\* stop() has returned true on a server that is stopped
StopReturned ==
    /\ server.stop = "idle"
    /\ server.ret = [op |-> "stop", val |-> TRUE]
    /\ ~server.running_
    /\ server.status_ = "Stopped"

\* C27: stop() on a running server always terminates: it clears running_
\* and closes the listening descriptor, the accept loop exits also when it
\* is blocked in accept() and no client connects, the thread is joined, and
\* then is_running() is false and the status Stopped; start() on a running
\* server returns false and changes nothing.
C27_StopTerminates ==
    /\ (server.stop = "join") ~> StopReturned
    /\ [][(server.stop = "idle" /\ server'.stop = "join")
          => (~server'.running_ /\ server'.listen_fd_ = "closed")]_vars
    /\ [][(server.running_ /\ server'.calls = server.calls + 1
           /\ server'.ret.op = "start")
          => /\ server'.ret.val = FALSE
             /\ [server' EXCEPT !.ret = server.ret, !.calls = server.calls] = server
             /\ conns' = conns]_vars

\* 'R', the length 8 and the code 0, and the 'Z' of ReadyForQuery
AuthenticationOk == <<82, 0, 0, 0, 8, 0, 0, 0, 0>>
ReadyForQuery == <<90>>

\* the client has closed or the server is not running: no answer is due
Gone(c) == ~conns[c].client_open \/ ~server.running_

\* the handler has received the k-th message of the script
Received(c, k) == Len(conns[c].received) >= k

\* what the server has sent on the connection starts with the bytes
StartsWith(c, bytes) ==
    Len(conns[c].sent) >= Len(bytes) /\ SubSeq(conns[c].sent, 1, Len(bytes)) = bytes

\* C28: on every accepted connection the SSL request is answered with the
\* byte 'N' and the startup message behind it with AuthenticationOk and then
\* ReadyForQuery, in this order, and nothing is sent before the first message
\* of the client.
C28_Handshake ==
    \A c \in Clients :
        /\ [](conns[c].received = <<>> => conns[c].sent = <<>>)
        /\ Received(c, 1) ~> (StartsWith(c, <<78>>) \/ Gone(c))
        /\ Received(c, 2)
           ~> (StartsWith(c, <<78>> \o AuthenticationOk \o ReadyForQuery) \/ Gone(c))

(***************************************************************************)
(* Update and delete behaviours: the sessions send UPDATE and DELETE       *)
(* statements, with and without a WHERE, to a table loaded with rows       *)
(***************************************************************************)
EmptyText == make_text(<<>>)

\* INSERT INTO t VALUES (v), (v), ... : n rows
InsertMany(v, n) == Stmt("Insert", "t", [k \in 1..n |-> <<v>>], <<>>, <<>>)

\* c1 > 7
AboveSeven == BinaryExpr(ColumnExpr("c1"), "Gt", ConstantExpr(make_int64(7)))

\* c1 = c1 + 1
Increment ==
    <<[col |-> ColumnExpr("c1"),
       val |-> BinaryExpr(ColumnExpr("c1"), "Plus", ConstantExpr(make_int64(1)))]>>

UpdateStatements ==
    {Stmt("TransactionBegin", "", <<>>, <<>>, <<>>),
     Stmt("TransactionRollback", "", <<>>, <<>>, <<>>),
     InsertT(make_int64(9)),
     Stmt("Delete", "t", <<>>, <<>>, <<>>),
     [Stmt("Delete", "t", <<>>, <<>>, <<>>) EXCEPT !.where = AboveSeven],
     Stmt("Update", "t", <<>>, <<>>, Increment),
     [Stmt("Update", "t", <<>>, <<>>, Increment) EXCEPT !.where = AboveSeven],
     Stmt("Update", "t", <<>>, <<>>,
          <<[col |-> ColumnExpr("c1"), val |-> ConstantExpr(EmptyText)]>>)}

\* t (c1 BIGINT) with the rows 7, 8, 9; t with the row 7 and as many rows 8
\* as make half the line pointers a page has reserved
UpdateBoots ==
    {<<CreateT,
       Stmt("Insert", "t", <<<<make_int64(7)>>, <<make_int64(8)>>, <<make_int64(9)>>>>,
            <<>>, <<>>)>>,
     <<CreateT, InsertT(make_int64(7)),
       InsertMany(make_int64(8), RESERVED_SLOTS \div 4),
       InsertMany(make_int64(8), RESERVED_SLOTS \div 4)>>}

UpdateInit ==
    /\ \E script \in UpdateBoots :
          Loaded(RunScript([sm |-> [disk |-> [f \in FileNames |-> NoFile],
                                    open |-> {}],
                            catalog |-> NewCatalog,
                            tm |-> NewTransactionManager,
                            locks |-> {}, versions |-> <<>>], script))
    /\ current_txn_ = [s \in Sessions |-> 0]
    /\ errored = {}
    /\ last = NoLast
    /\ stmts = 0
    /\ index = btree_create
    /\ inserted = <<>>
    /\ reply = NoReply
    /\ oids = <<>>
    /\ parsed = NoParse
    /\ server = NewServer
    /\ conns = <<>>
    /\ threads = <<>>
    /\ plan = <<>>
    /\ schema = <<"INT64">>
    /\ hist = <<>>
    /\ ret = NoRet
    /\ ops = 0
    /\ gen = 0

MaxUpdates == 2

\* session s has its executor execute one of the statements
Mutate(s, stmt) ==
    /\ stmts < MaxUpdates
    /\ Execute(s, stmt)

UpdateNext == \E s \in Sessions : \E stmt \in UpdateStatements : Mutate(s, stmt)

UpdateSpec == UpdateInit /\ [][UpdateNext]_vars

(***************************************************************************)
(* Update and delete claims                                                *)
(***************************************************************************)
\* the scan of the table as an executor on storage m and catalog c runs it
ScanOf(m, c, table) ==
    FullScan(m, filename_(table), Catalog_get_table_by_name(c, table).columns)

\* the rows of its table that match the statement's WHERE before the step
MatchedAtStart(stmt) ==
    Matching(ScanOf(sm, catalog, stmt.table).rows,
             TableSchema(Catalog_get_table_by_name(catalog, stmt.table).columns),
             stmt.where)

\* the rows of its table that do not match the statement's WHERE
UnmatchedAtStart(stmt) ==
    {r \in {ScanOf(sm, catalog, stmt.table).rows[i] :
                i \in 1..Len(ScanOf(sm, catalog, stmt.table).rows)} :
        \A k \in 1..Len(MatchedAtStart(stmt)) : MatchedAtStart(stmt)[k].tid # r.tid}

\* what get returns for the version v as insert stored it
AsStored(c, v) ==
    ParseColumns(Catalog_get_table_by_name(c, v.table).columns, 1,
                 Serialize(v.values), <<>>)

\* the step is an UPDATE or DELETE on a table the catalog has and whose
\* scan ends
MutatingStep ==
    /\ stmts' = stmts + 1
    /\ last'.stmt.type \in {"Update", "Delete"}
    /\ Catalog_get_table_by_name(catalog, last'.stmt.table).has_value
    /\ ScanOf(sm, catalog, last'.stmt.table).status = "end"

\* the old version of every row matched at the start is gone, and the rows
\* not matched are as they were
OldVersions(stmt) ==
    /\ \A k \in 1..Len(MatchedAtStart(stmt)) :
          GetVersion(sm', catalog', [table |-> stmt.table,
                                     tid |-> MatchedAtStart(stmt)[k].tid]).status = "none"
    /\ \A r \in UnmatchedAtStart(stmt) :
          GetVersion(sm', catalog', [table |-> stmt.table, tid |-> r.tid])
              = [status |-> "ok", values |-> r.values]

\* an UPDATE has written one new version for every row matched at the
\* start, computed from the row as it was, and each is stored as insert
\* stored it; a DELETE has written none
NewVersions(stmt) ==
    /\ Len(versions') = Len(versions)
                        + (IF stmt.type = "Update" THEN Len(MatchedAtStart(stmt)) ELSE 0)
    /\ \A k \in (Len(versions) + 1)..Len(versions') :
          /\ versions'[k].values =
                SetColumns(MatchedAtStart(stmt)[k - Len(versions)].values,
                           TableSchema(Catalog_get_table_by_name(catalog, stmt.table).columns),
                           stmt.set_clauses)
          /\ \A j \in 1..Len(MatchedAtStart(stmt)) :
                versions'[k].tid # MatchedAtStart(stmt)[j].tid
          /\ GetVersion(sm', catalog', versions'[k]) = AsStored(catalog', versions'[k])

Threads == {1, 2}

MaxIo == 3

PageNums == {0, 1}

\* the page images the writers hold, told apart by their first header field
Buffers == {[ZeroPage EXCEPT !.free_space_offset = SizeofPageHeader + k] : k \in {1, 2}}

NoCall == [pc |-> "idle", op |-> "none", page_num |-> 0, buffer |-> ZeroPage]

IoInit ==
    /\ sm = open_file([disk |-> [f \in FileNames |-> NoFile], open |-> {}], T)
    /\ threads = [cursor |-> 0, calls |-> 0, th |-> [t \in Threads |-> NoCall]]
    /\ plan = <<>>
    /\ schema = <<"INT64">>
    /\ hist = <<>>
    /\ ret = NoRet
    /\ ops = 0
    /\ gen = 0
    /\ catalog = NewCatalog
    /\ tm = NewTransactionManager
    /\ locks = {}
    /\ current_txn_ = [s \in Sessions |-> 0]
    /\ versions = <<>>
    /\ errored = {}
    /\ last = NoLast
    /\ stmts = 0
    /\ index = btree_create
    /\ inserted = <<>>
    /\ reply = NoReply
    /\ oids = <<>>
    /\ parsed = NoParse
    /\ server = NewServer
    /\ conns = <<>>

notIo == <<heapVars, execVars, indexVars, oids, parseVars, netVars, plan>>

\* thread t enters read_page(T, page_num, buffer) and runs it up to
\* file->seekg(page_num * PAGE_SIZE)
ReadSeek(t, page_num) ==
    /\ threads.th[t].pc = "idle"
    /\ threads.calls < MaxIo
    /\ threads' = [threads EXCEPT !.cursor = page_num, !.calls = @ + 1,
                                  !.th[t] = [pc |-> "transfer", op |-> "read",
                                             page_num |-> page_num, buffer |-> ZeroPage]]
    /\ UNCHANGED <<sm, notIo>>

\* file->read(buffer, PAGE_SIZE) of thread t, at the position the handle has
\* now, and the return of read_page
ReadTransfer(t) ==
    /\ threads.th[t].pc = "transfer"
    /\ threads.th[t].op = "read"
    /\ threads' = [threads EXCEPT
          !.cursor = IF @ < Len(sm.disk[T].pages) THEN @ + 1 ELSE @,
          !.th[t].pc = "idle",
          !.th[t].buffer = StorageManager_read_page(sm, T, threads.cursor).buf]
    /\ UNCHANGED <<sm, notIo>>

\* thread t enters write_page(T, page_num, buffer) and runs it up to
\* file->seekp(page_num * PAGE_SIZE)
WriteSeek(t, page_num, buffer) ==
    /\ threads.th[t].pc = "idle"
    /\ threads.calls < MaxIo
    /\ threads' = [threads EXCEPT !.cursor = page_num, !.calls = @ + 1,
                                  !.th[t] = [pc |-> "transfer", op |-> "write",
                                             page_num |-> page_num, buffer |-> buffer]]
    /\ UNCHANGED <<sm, notIo>>

\* file->write(buffer, PAGE_SIZE) of thread t, at the position the handle
\* has now, the flush and the return of write_page
WriteTransfer(t) ==
    /\ threads.th[t].pc = "transfer"
    /\ threads.th[t].op = "write"
    /\ sm' = StorageManager_write_page(sm, T, threads.cursor, threads.th[t].buffer).sm
    /\ threads' = [threads EXCEPT !.cursor = @ + 1, !.th[t].pc = "idle"]
    /\ UNCHANGED notIo

IoNext ==
    \/ \E t \in Threads : \E page_num \in PageNums : ReadSeek(t, page_num)
    \/ \E t \in Threads : ReadTransfer(t)
    \/ \E t \in Threads : \E page_num \in PageNums : \E buffer \in Buffers :
          WriteSeek(t, page_num, buffer)
    \/ \E t \in Threads : WriteTransfer(t)

IoSpec == IoInit /\ [][IoNext]_vars

(***************************************************************************)
(* Claims on concurrent callers of the StorageManager                      *)
(***************************************************************************)
\* thread t returns from its call in this step
CallEnds(t) == threads.th[t].pc = "transfer" /\ threads'.th[t].pc = "idle"

\* C32: with several threads in read_page and write_page on the same file,
\* every read_page(name, p) returns page p of the file as it is when the
\* call reads (zeros if never written), and every write_page(name, p, buf)
\* leaves the file as a write of buf to page p and nowhere else leaves it.
C32_PageCallsSerialized ==
    [][\A t \in Threads : CallEnds(t) =>
          IF threads.th[t].op = "read"
          THEN threads'.th[t].buffer
                  = StorageManager_read_page(sm, T, threads.th[t].page_num).buf
          ELSE sm'.disk[T].pages
                  = StorageManager_write_page(sm, T, threads.th[t].page_num,
                                              threads.th[t].buffer).sm.disk[T].pages
      ]_vars

(***************************************************************************)
(* Concurrent callers of one HeapTable: the threads call insert on the     *)
(* same table.  insert takes no lock; each read_page and each write_page   *)
(* of it is one step here.                                                 *)
(*   threads = [calls, th], th[t] = [pc, tuple, page_num, buffer, tid]     *)
(***************************************************************************)
MaxInserts == 3

\* the tuples the threads insert
RaceTuples == {<<make_int64(v)>> : v \in {7, 8}}

NoInsert == [pc |-> "idle", tuple |-> <<>>, page_num |-> 0, buffer |-> ZeroPage,
             tid |-> TupleId(0, 0)]

\* the table created, empty or holding one row
RaceInit ==
    /\ \E rows \in {<<>>, <<<<make_int64(9)>>>>} :
          sm = InsertAll([sm |-> HeapTable_create([disk |-> [f \in FileNames |-> NoFile],
                                                   open |-> {}], T).sm,
                          status |-> "ok", tid |-> TupleId(0, 0), hist |-> <<>>],
                         rows, 0).sm
    /\ threads = [calls |-> 0, th |-> [t \in Threads |-> NoInsert]]
    /\ plan = <<>>
    /\ schema = <<"INT64">>
    /\ hist = <<>>
    /\ ret = NoRet
    /\ ops = 0
    /\ gen = 0
    /\ catalog = NewCatalog
    /\ tm = NewTransactionManager
    /\ locks = {}
    /\ current_txn_ = [s \in Sessions |-> 0]
    /\ versions = <<>>
    /\ errored = {}
    /\ last = NoLast
    /\ stmts = 0
    /\ index = btree_create
    /\ inserted = <<>>
    /\ reply = NoReply
    /\ oids = <<>>
    /\ parsed = NoParse
    /\ server = NewServer
    /\ conns = <<>>

\* the header of insert's buffer, initialised when the page was never written
InsertHeader(buffer) ==
    IF buffer.free_space_offset = 0 THEN InitHeader(buffer) ELSE buffer

\* the test "fits in this page" of insert
InsertFits(header, tuple) ==
    /\ header.free_space_offset + ((Len(Serialize(tuple)) + 1) % U16) < PAGE_SIZE
    /\ (SizeofPageHeader + (header.num_slots + 1) * SizeofSlot) % U16
          < header.free_space_offset

\* insert's buffer with the tuple and its line pointer put in
InsertedPage(header, tuple) ==
    [free_space_offset |->
        (header.free_space_offset + ((Len(Serialize(tuple)) + 1) % U16)) % U16,
     num_slots |-> (header.num_slots + 1) % U16,
     mem |-> Poke(Poke(header.mem, header.free_space_offset, Serialize(tuple) \o <<0>>),
                  SlotAddr(header.num_slots), LE16(header.free_space_offset))]

\* thread t calls table.insert(tuple): the search starts at page 0
InsertCall(t, tuple) ==
    /\ threads.th[t].pc \in {"idle", "done"}
    /\ threads.calls < MaxInserts
    /\ threads' = [threads EXCEPT !.calls = @ + 1,
                                  !.th[t] = [NoInsert EXCEPT !.pc = "read",
                                                             !.tuple = tuple]]
    /\ UNCHANGED <<sm, notIo>>

\* read_page(page_num, buffer) of thread t's insert
InsertRead(t) ==
    /\ threads.th[t].pc = "read"
    /\ sm' = StorageManager_read_page(sm, T, threads.th[t].page_num).sm
    /\ threads' = [threads EXCEPT
          !.th[t].pc = "write",
          !.th[t].buffer = StorageManager_read_page(sm, T, threads.th[t].page_num).buf]
    /\ UNCHANGED notIo

\* the rest of the round of thread t's insert on the buffer it has read:
\* the tuple is put in, the page written and the TupleId returned, or the
\* search goes on to the next page.  page_num is a uint32_t: page_num++
\* wraps to 0 behind 2^32 - 1 in the code, behind MaxPageNum here
InsertWrite(t) ==
    /\ threads.th[t].pc = "write"
    /\ IF InsertFits(InsertHeader(threads.th[t].buffer), threads.th[t].tuple)
       THEN /\ sm' = StorageManager_write_page(sm, T, threads.th[t].page_num,
                        InsertedPage(InsertHeader(threads.th[t].buffer),
                                     threads.th[t].tuple)).sm
            /\ threads' = [threads EXCEPT
                  !.th[t].pc = "done",
                  !.th[t].tid = TupleId(threads.th[t].page_num,
                                        InsertHeader(threads.th[t].buffer).num_slots)]
       ELSE /\ sm' = sm
            /\ threads' = [threads EXCEPT !.th[t].pc = "read",
                                          !.th[t].page_num = (@ + 1) % (MaxPageNum + 1)]
    /\ UNCHANGED notIo

RaceNext ==
    \/ \E t \in Threads : \E tuple \in RaceTuples : InsertCall(t, tuple)
    \/ \E t \in Threads : InsertRead(t)
    \/ \E t \in Threads : InsertWrite(t)

RaceSpec == RaceInit /\ [][RaceNext]_vars

(***************************************************************************)
(* Claims on concurrent callers of the HeapTable                           *)
(***************************************************************************)
\* the threads whose last insert has returned
Returned == {t \in Threads : threads.th[t].pc = "done"}

\* C33: the inserts of two threads on the same table return distinct
\* TupleIds, and afterwards the tuple of each is returned by get at its
\* TupleId and by a scan.
C33_ConcurrentInserts ==
    /\ \A t \in Returned : \A u \in Returned \ {t} :
          threads.th[t].tid # threads.th[u].tid
    /\ \A t \in Returned :
          /\ HeapTable_get(sm, T, schema, threads.th[t].tid).res
                = [status |-> "ok", values |-> threads.th[t].tuple]
          /\ \E k \in 1..Len(FullScan(sm, T, schema).rows) :
                FullScan(sm, T, schema).rows[k]
                   = [tid |-> threads.th[t].tid, values |-> threads.th[t].tuple]

(***************************************************************************)
(* The operators of operator.cpp as objects.  An operator is a record      *)
(*   type, state_   the OperatorType and the ExecState                     *)
(*   child          its children, <<>> for a scan                          *)
(*   types          SeqScan, IndexScan: the column types of the table      *)
(*   schema_        the column names of output_schema()                    *)
(*   exprs, flags   condition_ / columns_ / sort_keys_ and ascending_ /    *)
(*                  group_by_ and aggregates_ / left_key_ and right_key_   *)
(*   found          IndexScan: what index_->search(search_key_) yields     *)
(*   limit_, offset_                                                       *)
(*   iterator_      SeqScan: [has, it]                                     *)
(*   tuples         sorted_tuples_ / groups_ / matching_ids_ / hash_table_ *)
(*   current        current_index_ / current_group_ / current_count_ /     *)
(*                  current_match_index_                                   *)
(*   left_tuple_, match_iter_   HashJoin: [has, values], [has, rest]       *)
(* A call yields [status, op, tuple]: status "true" or "false" as          *)
(* returned, "throw" when an exception left the call; op is the operator   *)
(* after the call.  The table of every scan is the file T.                 *)
(***************************************************************************)
NoIterator == [has |-> FALSE, it |-> NewIterator]

NoLeft == [has |-> FALSE, values |-> <<>>]

NoMatch == [has |-> FALSE, rest |-> <<>>]

Operator(type) ==
    [type |-> type, state_ |-> "Init", child |-> <<>>, types |-> <<>>,
     schema_ |-> <<>>, exprs |-> <<>>, flags |-> <<>>, found |-> <<>>,
     limit_ |-> 0, offset_ |-> 0, iterator_ |-> NoIterator, tuples |-> <<>>,
     current |-> 0, left_tuple_ |-> NoLeft, match_iter_ |-> NoMatch]

\* SeqScanOperator::SeqScanOperator on the table of column types types
MakeSeqScan(types) ==
    [Operator("SeqScan") EXCEPT !.types = types, !.schema_ = TableSchema(types)]

\* IndexScanOperator::IndexScanOperator; found is the answer of the index
MakeIndexScan(types, found) ==
    [Operator("IndexScan") EXCEPT !.types = types, !.schema_ = TableSchema(types),
                                  !.found = found]

\* FilterOperator::FilterOperator
MakeFilter(child, condition) ==
    [Operator("Filter") EXCEPT !.child = <<child>>, !.exprs = <<condition>>,
                               !.schema_ = child.schema_]

\* ProjectOperator::ProjectOperator
MakeProject(child, columns) ==
    [Operator("Project") EXCEPT
        !.child = <<child>>, !.exprs = columns,
        !.schema_ = [i \in 1..Len(columns) |-> Expression_to_string(columns[i])]]

\* SortOperator::SortOperator
MakeSort(child, sort_keys, ascending) ==
    [Operator("Sort") EXCEPT !.child = <<child>>, !.exprs = sort_keys,
                             !.flags = ascending, !.schema_ = child.schema_]

\* AggregateOperator::AggregateOperator
MakeAggregate(child, group_by, aggregates) ==
    [Operator("Aggregate") EXCEPT
        !.child = <<child>>, !.exprs = group_by, !.flags = aggregates,
        !.schema_ = [i \in 1..Len(group_by) |-> Expression_to_string(group_by[i])]
                    \o [i \in 1..Len(aggregates) |-> aggregates[i].name]]

\* HashJoinOperator::HashJoinOperator
MakeHashJoin(left, right, left_key, right_key) ==
    [Operator("HashJoin") EXCEPT !.child = <<left, right>>,
                                 !.exprs = <<left_key, right_key>>,
                                 !.schema_ = left.schema_ \o right.schema_]

\* LimitOperator::LimitOperator; output_schema() is the child's
MakeLimit(child, limit, offset) ==
    [Operator("Limit") EXCEPT !.child = <<child>>, !.limit_ = limit,
                              !.offset_ = offset, !.schema_ = child.schema_]

Call(status, op, tuple) == [status |-> status, op |-> op, tuple |-> tuple]

RECURSIVE Operator_init(_)
\* init(): a scan goes to Init, every other operator hands on to its
\* children (HashJoin to the right one only if the left one returned true);
\* every init returns true
Operator_init(op) ==
    IF op.child = <<>> THEN [op EXCEPT !.state_ = "Init"]
    ELSE [op EXCEPT !.child = [i \in 1..Len(op.child) |-> Operator_init(op.child[i])]]

RECURSIVE Operator_next(_, _)

\* SeqScanOperator::next after iterator_->next(out_tuple) came to n
Stepped(op, n) ==
    CASE n.status = "ok" ->
            Call("true", [op EXCEPT !.iterator_.it = n.it], n.values)
      [] n.status = "end" ->
            Call("false", [op EXCEPT !.iterator_.it = n.it, !.state_ = "Done"], <<>>)
      [] OTHER -> Call("throw", [op EXCEPT !.iterator_.it = n.it], <<>>)

\* SeqScanOperator::next
SeqScan_next(m, op) ==
    IF ~op.iterator_.has \/ op.iterator_.it.eof_
    THEN Call("false", [op EXCEPT !.state_ = "Done"], <<>>)
    ELSE Stepped(op, Iterator_next(m, T, op.types, op.iterator_.it))

RECURSIVE IndexScan_next(_, _)
\* IndexScanOperator::next after table_->get(tid, out_tuple) came to g
Fetched(m, op, g) ==
    CASE g.status = "ok" -> Call("true", op, g.values)
      [] g.status = "throw" -> Call("throw", op, <<>>)
      [] OTHER -> IndexScan_next(m, op)

\* IndexScanOperator::next
IndexScan_next(m, op) ==
    IF op.current >= Len(op.tuples)
    THEN Call("false", [op EXCEPT !.state_ = "Done"], <<>>)
    ELSE Fetched(m, [op EXCEPT !.current = @ + 1],
                 HeapTable_get(m, T, op.types, op.tuples[op.current + 1]).res)

\* next() of an operator with one child when the child's next did not
\* return true (c is what it came to): the exception goes on, false is Done
ChildEnded(op, c) ==
    IF c.status = "throw" THEN Call("throw", [op EXCEPT !.child[1] = c.op], <<>>)
    ELSE Call("false", [op EXCEPT !.child[1] = c.op, !.state_ = "Done"], <<>>)

RECURSIVE Filter_next(_, _)
\* FilterOperator::next after child_->next(tuple) came to c
Filtered(m, op, c) ==
    IF c.status # "true" THEN ChildEnded(op, c)
    ELSE IF Value_as_bool(Expression_evaluate(op.exprs[1], c.tuple, op.schema_))
    THEN Call("true", [op EXCEPT !.child = <<c.op>>], c.tuple)
    ELSE Filter_next(m, [op EXCEPT !.child = <<c.op>>])

\* FilterOperator::next
Filter_next(m, op) == Filtered(m, op, Operator_next(m, op.child[1]))

\* ProjectOperator::next after child_->next(input) came to c
Projected(op, c) ==
    IF c.status # "true" THEN ChildEnded(op, c)
    ELSE Call("true", [op EXCEPT !.child = <<c.op>>],
              [i \in 1..Len(op.exprs) |->
                  Expression_evaluate(op.exprs[i], c.tuple, c.op.schema_)])

\* ProjectOperator::next
Project_next(m, op) == Projected(op, Operator_next(m, op.child[1]))

\* SortOperator::next and AggregateOperator::next
Buffered_next(op) ==
    IF op.current >= Len(op.tuples)
    THEN Call("false", [op EXCEPT !.state_ = "Done"], <<>>)
    ELSE Call("true", [op EXCEPT !.current = @ + 1], op.tuples[op.current + 1])

\* the key a tuple has in hash_table_
JoinKey(key, tuple, sch) == Value_to_string(Expression_evaluate(key, tuple, sch))

\* hash_table_.equal_range(key): the tuples under the key, in the order of
\* their insertion
equal_range(hash_table_, key) ==
    SelectSeq(hash_table_, LAMBDA e : e.key = key)

RECURSIVE HashJoin_next(_, _)
\* HashJoinOperator::next after left_->next(next_left) came to l
Probed(m, op, l) ==
    IF l.status # "true" THEN ChildEnded(op, l)
    ELSE IF equal_range(op.tuples, JoinKey(op.exprs[1], l.tuple, l.op.schema_)) # <<>>
    THEN HashJoin_next(m,
            [op EXCEPT !.child[1] = l.op,
                       !.left_tuple_ = [has |-> TRUE, values |-> l.tuple],
                       !.match_iter_ =
                          [has |-> TRUE,
                           rest |-> equal_range(op.tuples,
                                       JoinKey(op.exprs[1], l.tuple, l.op.schema_))]])
    ELSE HashJoin_next(m, [op EXCEPT !.child[1] = l.op])

\* HashJoinOperator::next
HashJoin_next(m, op) ==
    IF op.match_iter_.has /\ op.match_iter_.rest # <<>>
    THEN Call("true", [op EXCEPT !.match_iter_.rest = Tail(@)],
              op.left_tuple_.values \o Head(op.match_iter_.rest).tuple)
    ELSE Probed(m, [op EXCEPT !.match_iter_ = NoMatch, !.left_tuple_ = NoLeft],
                Operator_next(m, op.child[1]))

\* LimitOperator::next after child_->next(out_tuple) came to c
Limited(op, c) ==
    IF c.status # "true" THEN ChildEnded(op, c)
    ELSE Call("true", [op EXCEPT !.child = <<c.op>>, !.current = @ + 1], c.tuple)

\* LimitOperator::next
Limit_next(m, op) ==
    IF op.current >= op.limit_
    THEN Call("false", [op EXCEPT !.state_ = "Done"], <<>>)
    ELSE Limited(op, Operator_next(m, op.child[1]))

\* next(out_tuple) of the operator, on the storage m
Operator_next(m, op) ==
    CASE op.type = "SeqScan" -> SeqScan_next(m, op)
      [] op.type = "IndexScan" -> IndexScan_next(m, op)
      [] op.type = "Filter" -> Filter_next(m, op)
      [] op.type = "Project" -> Project_next(m, op)
      [] op.type = "HashJoin" -> HashJoin_next(m, op)
      [] op.type = "Limit" -> Limit_next(m, op)
      [] OTHER -> Buffered_next(op)

RECURSIVE Drain(_, _, _)
\* the loop after child->next(tuple) came to n
Drained(m, n, acc) ==
    IF n.status = "true" THEN Drain(m, n.op, Append(acc, n.tuple))
    ELSE [status |-> n.status, op |-> n.op, tuples |-> acc]

\* while (child->next(tuple)) push_back(tuple): [status, op, tuples]
Drain(m, child, acc) == Drained(m, Operator_next(m, child), acc)

RECURSIVE Skip(_, _, _, _)
\* the loop of LimitOperator::open after child_->next(tuple) came to n
Skipped(m, n, current_count_, offset_) ==
    IF n.status = "true" THEN Skip(m, n.op, current_count_ + 1, offset_)
    ELSE [status |-> n.status, op |-> n.op, tuples |-> <<>>]

\* while (current_count_ < offset_ && child_->next(tuple)) current_count_++
Skip(m, child, current_count_, offset_) ==
    IF current_count_ >= offset_
    THEN [status |-> "false", op |-> child, tuples |-> <<>>]
    ELSE Skipped(m, Operator_next(m, child), current_count_, offset_)

\* hash_table_ after the build phase pulled tuples from the right side
HashEntries(op, d) ==
    [k \in 1..Len(d.tuples) |->
        [key |-> JoinKey(op.exprs[2], d.tuples[k], d.op.schema_),
         tuple |-> d.tuples[k]]]

\* open() after the loop over the last child came to d, [status, op,
\* tuples]: the buffer is filled and the operator is Open, unless an
\* exception left the loop
Filled(op, d) ==
    LET n == Len(op.child)
    IN
    CASE d.status = "throw" ->
            Call("throw",
                 [op EXCEPT !.child[n] = d.op,
                            !.tuples = CASE op.type = "Sort" -> d.tuples
                                         [] op.type = "HashJoin" -> HashEntries(op, d)
                                         [] OTHER -> @], <<>>)
      [] op.type = "Sort" ->
            Call("true",
                 [op EXCEPT !.child[n] = d.op,
                            !.tuples = stable_sort(d.tuples, op.schema_, op.exprs,
                                                   op.flags),
                            !.current = 0, !.state_ = "Open"], <<>>)
      [] op.type = "Aggregate" ->
            Call("true",
                 [op EXCEPT !.child[n] = d.op,
                            !.tuples = AggregateOperator([rows |-> d.tuples,
                                                          sch |-> d.op.schema_],
                                                         op.exprs, op.flags).rows,
                            !.current = 0, !.state_ = "Open"], <<>>)
      [] op.type = "HashJoin" ->
            Call("true",
                 [op EXCEPT !.child[n] = d.op,
                            !.tuples = HashEntries(op, d),
                            !.left_tuple_ = NoLeft, !.match_iter_ = NoMatch,
                            !.state_ = "Open"], <<>>)
      [] OTHER ->
            Call("true", [op EXCEPT !.child[n] = d.op, !.current = 0,
                                    !.state_ = "Open"], <<>>)

\* what open() does once the children are open
OpenOwn(m, op) ==
    CASE op.type \in {"Filter", "Project"} ->
            Call("true", [op EXCEPT !.state_ = "Open"], <<>>)
      [] op.type = "Limit" ->
            Filled(op, Skip(m, op.child[1], op.current, op.offset_))
      [] OTHER -> Filled(op, Drain(m, op.child[Len(op.child)], <<>>))

RECURSIVE Operator_open(_, _)
RECURSIVE ChildOpened(_, _, _, _)
\* open() after the open() of child i came to c: false when it did not
\* open, else the next child is opened, or the operator's own part done
ChildOpened(m, op, i, c) ==
    IF c.status # "true" THEN Call(c.status, [op EXCEPT !.child[i] = c.op], <<>>)
    ELSE IF i < Len(op.child)
    THEN ChildOpened(m, [op EXCEPT !.child[i] = c.op], i + 1,
                     Operator_open(m, op.child[i + 1]))
    ELSE OpenOwn(m, [op EXCEPT !.child[i] = c.op])

\* open(): a scan takes a new iterator or the matches of the index; every
\* other operator opens its children first
Operator_open(m, op) ==
    CASE op.type = "SeqScan" ->
            Call("true", [op EXCEPT !.state_ = "Open",
                                    !.iterator_ = [has |-> TRUE, it |-> NewIterator]],
                 <<>>)
      [] op.type = "IndexScan" ->
            Call("true", [op EXCEPT !.state_ = "Open", !.tuples = op.found,
                                    !.current = 0], <<>>)
      [] OTHER -> ChildOpened(m, op, 1, Operator_open(m, op.child[1]))

\* close() without the part that closes the children, were the buffers
\* left as they are
CloseOwn_keeping(op) == [op EXCEPT !.state_ = "Done"]

\* close() without the part that closes the children
CloseOwn(op) ==
    [op EXCEPT !.state_ = "Done",
               !.iterator_ = IF op.type = "SeqScan" THEN NoIterator ELSE @,
               !.tuples = IF op.type \in {"IndexScan", "Sort", "Aggregate", "HashJoin"}
                          THEN <<>> ELSE @,
               !.match_iter_ = IF op.type = "HashJoin" THEN NoMatch ELSE @,
               !.left_tuple_ = IF op.type = "HashJoin" THEN NoLeft ELSE @]

RECURSIVE Operator_close(_)
\* close()
Operator_close(op) ==
    CloseOwn([op EXCEPT !.child = [i \in 1..Len(op.child) |->
                                      Operator_close(op.child[i])]])

(***************************************************************************)
(* A plan and its caller.  plan = [stmt, root, trace, out, closed]:        *)
(*   stmt    the LIMIT and OFFSET clauses of the SELECT, [clauses, limit,  *)
(*           offset]; limit and offset are SelectStatement's fields        *)
(*   root    the plan root                                                 *)
(*   trace   history: the calls made on the root, [call, status] each      *)
(*   out     history: the tuples next() gave since the last open()         *)
(*   closed  history: [has, root], the root after the first close() since  *)
(*           the last open()                                               *)
(***************************************************************************)
MaxPlanCalls == 4

MaxLimit == 2

\* Parser::parse_select on the clauses LIMIT l and OFFSET o, each present
\* or not
ParseLimit(clauses, l, o) ==
    [clauses |-> clauses,
     limit |-> IF "LIMIT" \in clauses THEN l ELSE 0,
     offset |-> IF "OFFSET" \in clauses THEN o ELSE 0]

\* step 6 of build_plan: has_limit() || has_offset()
PlanLimit(root, stmt) ==
    IF stmt.limit > 0 \/ stmt.offset > 0
    THEN MakeLimit(root, stmt.limit, stmt.offset) ELSE root

PlanTypes == <<"INT64">>

CountC1 == AggregateInfo(FunctionExpr("COUNT", ColumnExpr("c1")))

\* plans without LIMIT and OFFSET
PlainPlans ==
    LET scan == MakeSeqScan(PlanTypes)
    IN  { scan,
          MakeIndexScan(PlanTypes, <<TupleId(0, 1), TupleId(0, 5), TupleId(0, 0)>>),
          MakeFilter(scan, AboveSeven),
          MakeProject(scan, <<ColumnExpr("c1")>>),
          MakeSort(scan, <<ColumnExpr("c1")>>, <<TRUE>>),
          MakeAggregate(scan, <<>>, <<CountC1>>),
          MakeAggregate(scan, <<ColumnExpr("c1")>>, <<CountC1>>),
          MakeHashJoin(scan, scan, ColumnExpr("c1"), ColumnExpr("c1")) }

\* the statements' LIMIT and OFFSET clauses
LimitClauses ==
    {ParseLimit(c, l, o) : c \in (SUBSET {"LIMIT", "OFFSET"}) \ {{}},
                           l \in 0..MaxLimit, o \in 0..MaxLimit}

NoClauses == ParseLimit({}, 0, 0)

NewPlan(stmt, root) ==
    [stmt |-> stmt, root |-> root, trace |-> <<>>, out |-> <<>>,
     closed |-> [has |-> FALSE, root |-> root]]

\* the tables the plans run on: empty, two rows, a row that does not parse
PlanTables ==
    { <<>>, <<<<make_int64(8)>>, <<make_int64(7)>>>>,
      <<<<make_int64(8)>>, <<make_text(<<>>)>>>> }

OperatorInit ==
    /\ \E rows \in PlanTables :
          sm = InsertAll([sm |-> HeapTable_create([disk |-> [f \in FileNames |-> NoFile],
                                                   open |-> {}], T).sm,
                          status |-> "ok", tid |-> TupleId(0, 0), hist |-> <<>>],
                         rows, 0).sm
    /\ \/ \E root \in PlainPlans : plan = NewPlan(NoClauses, root)
       \/ \E stmt \in LimitClauses :
             plan = NewPlan(stmt, PlanLimit(MakeSeqScan(PlanTypes), stmt))
       \/ plan = NewPlan(ParseLimit({"LIMIT", "OFFSET"}, 1, 1),
                         PlanLimit(MakeSort(MakeFilter(MakeSeqScan(PlanTypes), AboveSeven),
                                            <<ColumnExpr("c1")>>, <<TRUE>>),
                                   ParseLimit({"LIMIT", "OFFSET"}, 1, 1)))
    /\ threads = <<>>
    /\ schema = PlanTypes
    /\ hist = <<>>
    /\ ret = NoRet
    /\ ops = 0
    /\ gen = 0
    /\ catalog = NewCatalog
    /\ tm = NewTransactionManager
    /\ locks = {}
    /\ current_txn_ = [s \in Sessions |-> 0]
    /\ versions = <<>>
    /\ errored = {}
    /\ last = NoLast
    /\ stmts = 0
    /\ index = btree_create
    /\ inserted = <<>>
    /\ reply = NoReply
    /\ oids = <<>>
    /\ parsed = NoParse
    /\ server = NewServer
    /\ conns = <<>>

notPlan == <<heapVars, execVars, indexVars, oids, parseVars, netVars, threads>>

Traced(call, status) == Append(plan.trace, [call |-> call, status |-> status])

\* root->init()
CallInit ==
    /\ Len(plan.trace) < MaxPlanCalls
    /\ plan' = [plan EXCEPT !.root = Operator_init(@),
                            !.trace = Traced("init", "true")]
    /\ UNCHANGED <<sm, notPlan>>

\* the plan after open() came to r
Opened(r) ==
    [plan EXCEPT !.root = r.op,
                 !.trace = Traced("open", r.status),
                 !.out = <<>>,
                 !.closed = [has |-> FALSE, root |-> r.op]]

\* root->open()
CallOpen ==
    /\ Len(plan.trace) < MaxPlanCalls
    /\ plan' = Opened(Operator_open(sm, plan.root))
    /\ sm' = open_file(sm, T)
    /\ UNCHANGED notPlan

\* the plan after next() came to r
Pulled(r) ==
    [plan EXCEPT !.root = r.op,
                 !.trace = Traced("next", r.status),
                 !.out = IF r.status = "true" THEN Append(@, r.tuple) ELSE @]

\* root->next(tuple)
CallNext ==
    /\ Len(plan.trace) < MaxPlanCalls
    /\ plan' = Pulled(Operator_next(sm, plan.root))
    /\ sm' = open_file(sm, T)
    /\ UNCHANGED notPlan

\* root->close()
CallClose ==
    /\ Len(plan.trace) < MaxPlanCalls
    /\ plan' = [plan EXCEPT !.root = Operator_close(@),
                            !.trace = Traced("close", "true"),
                            !.closed = IF @.has THEN @
                                       ELSE [has |-> TRUE, root |-> Operator_close(plan.root)]]
    /\ UNCHANGED <<sm, notPlan>>

\* the calls since the last open(), all of them when there was none
RECURSIVE SinceOpen(_)
SinceOpen(trace) ==
    IF trace = <<>> \/ trace[Len(trace)].call = "open" THEN <<>>
    ELSE Append(SinceOpen(SubSeq(trace, 1, Len(trace) - 1)), trace[Len(trace)])

\* since the last open(), next() has returned false or close() was called
Absorbed ==
    \E k \in 1..Len(SinceOpen(plan.trace)) :
       \/ SinceOpen(plan.trace)[k].call = "close"
       \/ SinceOpen(plan.trace)[k] = [call |-> "next", status |-> "false"]

\* another statement inserts a row into the table of the plan once its root
\* has come to Done
TableInsert ==
    /\ ops = 0
    /\ Absorbed
    /\ sm' = HeapTable_insert(sm, T, <<make_int64(9)>>).sm
    /\ ops' = 1
    /\ UNCHANGED <<schema, hist, ret, gen, execVars, indexVars, oids, parseVars,
                   netVars, concVars>>

OperatorNext == CallInit \/ CallOpen \/ CallNext \/ CallClose \/ TableInsert

OperatorSpec == OperatorInit /\ [][OperatorNext]_vars

(***************************************************************************)
(* Claims on the operators                                                 *)
(***************************************************************************)
\* C35: once next() has returned false or close() has been called, every
\* further next() without a new open() returns false and gives no tuple,
\* and a close() after the first leaves the operator and its children as
\* the first close() left them.
C35_DoneAbsorbing ==
    [][/\ (Absorbed /\ Len(plan'.trace) > Len(plan.trace)
                    /\ plan'.trace[Len(plan'.trace)].call = "next")
          => /\ plan'.trace[Len(plan'.trace)].status = "false"
             /\ plan'.out = plan.out
       /\ (plan.closed.has /\ Len(plan'.trace) > Len(plan.trace)
                           /\ plan'.trace[Len(plan'.trace)].call = "close")
          => plan'.root = plan.closed.root
      ]_vars

\* a Sort opened on a table of rows and closed, the table grown since, next()
\* called again and close() a second time
C35_Witness ==
    /\ plan.root.type = "Sort"
    /\ ops = 1
    /\ Len(plan.trace) = 4
    /\ plan.trace[1] = [call |-> "open", status |-> "true"]
    /\ plan.trace[2].call = "close"
    /\ plan.trace[3] = [call |-> "next", status |-> "false"]
    /\ plan.trace[4].call = "close"
    /\ plan.root = plan.closed.root

\* the calls made are those of a SELECT that ran to its end: init(), open()
\* returning true, then next() up to the first false
SelectRan ==
    /\ Len(plan.trace) >= 3
    /\ plan.trace[1].call = "init"
    /\ plan.trace[2] = [call |-> "open", status |-> "true"]
    /\ \A k \in 3..(Len(plan.trace) - 1) :
          plan.trace[k] = [call |-> "next", status |-> "true"]
    /\ plan.trace[Len(plan.trace)] = [call |-> "next", status |-> "false"]
    /\ ops = 0

\* the plan below the Limit: the root itself when build_plan made no Limit
Below == IF plan.root.type = "Limit" THEN plan.root.child[1] ELSE plan.root

\* the rows the plan below the Limit produces, opened anew and pulled to
\* its end: [status, op, tuples]
Produced == Drain(sm, Operator_open(sm, Below).op, <<>>)

\* rows o+1 .. min(n, o+l) of rows; the clause that is not there sets no bound
Window(rows, stmt) ==
    SubSeq(rows,
           (IF "OFFSET" \in stmt.clauses THEN stmt.offset ELSE 0) + 1,
           IF "LIMIT" \in stmt.clauses
              /\ (IF "OFFSET" \in stmt.clauses THEN stmt.offset ELSE 0) + stmt.limit
                    < Len(rows)
           THEN (IF "OFFSET" \in stmt.clauses THEN stmt.offset ELSE 0) + stmt.limit
           ELSE Len(rows))

\* C36: when the plan below the Limit produces r1..rn, a SELECT with
\* LIMIT l OFFSET o returns r(o+1)..r(min(n, o+l)), with OFFSET o alone
\* r(o+1)..rn, with LIMIT l alone r1..r(min(n, l)), with LIMIT 0 no rows;
\* and a Limit that has given l tuples has pulled o+l from its child.
C36_LimitOffset ==
    (SelectRan /\ plan.stmt.clauses # {} /\ Produced.status = "false")
    => /\ plan.out = Window(Produced.tuples, plan.stmt)
       /\ (plan.root.type = "Limit" /\ Below.type = "SeqScan"
              /\ Len(plan.out) = plan.root.limit_
              /\ plan.root.offset_ + plan.root.limit_ <= Len(Produced.tuples))
          => Below.iterator_.it.current_id_
                = TupleId(0, plan.root.offset_ + plan.root.limit_)

\* C37: with an empty GROUP BY list the Aggregate gives exactly one row for
\* whatever its child produces, and COUNT is 0 when the child produces
\* nothing.
C37_SingleGroup ==
    (SelectRan /\ plan.root.type = "Aggregate" /\ plan.root.exprs = <<>>)
    => /\ Len(plan.out) = 1
       /\ FullScan(sm, T, PlanTypes).rows = <<>> => plan.out = <<<<make_int64(0)>>>>

(***************************************************************************)
(* execute() of a SELECT outside any explicit transaction, in the steps    *)
(* of execute_select.  plan = [root, trace, out, pc, txn, result]: trace   *)
(* is the history of the calls on the root and of the commit or abort of   *)
(* the implicit transaction, pc is "idle", "pulling" (inside the while     *)
(* loop of execute_select) or "returned".                                  *)
(***************************************************************************)
MaxSelects == 3

SelectPlans ==
    LET scan == MakeSeqScan(PlanTypes)
    IN  { scan,
          MakeFilter(scan, AboveSeven),
          MakeSort(scan, <<ColumnExpr("c1")>>, <<TRUE>>),
          MakeAggregate(scan, <<>>, <<CountC1>>),
          PlanLimit(scan, ParseLimit({"LIMIT"}, 1, 0)) }

SelectInit ==
    /\ \E rows \in PlanTables :
          sm = InsertAll([sm |-> HeapTable_create([disk |-> [f \in FileNames |-> NoFile],
                                                   open |-> {}], T).sm,
                          status |-> "ok", tid |-> TupleId(0, 0), hist |-> <<>>],
                         rows, 0).sm
    /\ plan = [root |-> MakeSeqScan(PlanTypes), trace |-> <<>>, out |-> <<>>,
               pc |-> "idle", txn |-> 0, result |-> QueryResult]
    /\ threads = <<>>
    /\ schema = PlanTypes
    /\ hist = <<>>
    /\ ret = NoRet
    /\ ops = 0
    /\ gen = 0
    /\ catalog = NewCatalog
    /\ tm = NewTransactionManager
    /\ locks = {}
    /\ current_txn_ = [s \in Sessions |-> 0]
    /\ versions = <<>>
    /\ errored = {}
    /\ last = NoLast
    /\ stmts = 0
    /\ index = btree_create
    /\ inserted = <<>>
    /\ reply = NoReply
    /\ oids = <<>>
    /\ parsed = NoParse
    /\ server = NewServer
    /\ conns = <<>>

notSelect == <<heapVars, catalog, current_txn_, versions, errored, last, indexVars,
               oids, parseVars, netVars, threads>>

\* the end of execute after the try block was left with an exception
\* ("throw": the catch block aborts the implicit transaction) or by a
\* return ("false": it is committed); "true": still inside execute_select
Left(status, e, txn) ==
    /\ sm' = (CASE status = "throw" -> TransactionManager_abort(e, txn)
                [] status = "false" -> TransactionManager_commit(e, txn)
                [] OTHER -> e).sm
    /\ tm' = (CASE status = "throw" -> TransactionManager_abort(e, txn)
                [] status = "false" -> TransactionManager_commit(e, txn)
                [] OTHER -> e).tm
    /\ locks' = (CASE status = "throw" -> TransactionManager_abort(e, txn)
                   [] status = "false" -> TransactionManager_commit(e, txn)
                   [] OTHER -> e).locks

Event(call, status) == [call |-> call, status |-> status]

\* execute up to the while loop of execute_select, b being what begin()
\* gave and r what root->init() and root->open() came to: when open()
\* returns false execute_select returns the error, when it throws the
\* catch block of execute is entered
SelectStarted(b, r) ==
    /\ plan' = [root |-> r.op,
                trace |-> <<Event("init", "true"), Event("open", r.status)>>
                          \o CASE r.status = "throw" -> <<Event("abort", "true")>>
                               [] r.status = "false" -> <<Event("commit", "true")>>
                               [] OTHER -> <<>>,
                out |-> <<>>,
                pc |-> IF r.status = "true" THEN "pulling" ELSE "returned",
                txn |-> b.txn,
                result |-> CASE r.status = "throw" -> set_error("Execution error")
                             [] r.status = "false" ->
                                   set_error("Failed to open execution plan")
                             [] OTHER -> QueryResult]
    /\ Left(r.status, [Shared EXCEPT !.tm = b.tm, !.sm = open_file(sm, T)], b.txn)

\* execute(stmt) of a SELECT whose plan is root: the implicit transaction is
\* begun, the plan built, initialised and opened
ExecuteSelect(root) ==
    /\ plan.pc \in {"idle", "returned"}
    /\ stmts < MaxSelects
    /\ SelectStarted(TransactionManager_begin(tm),
                     Operator_open(sm, Operator_init(root)))
    /\ stmts' = stmts + 1
    /\ UNCHANGED notSelect

\* one round of while (root->next(tuple)), r being what next came to: the
\* row is added; or the loop ends, the root is closed, execute_select
\* returns and execute commits; or the exception reaches the catch block
SelectPulled(r) ==
    /\ plan' = [plan EXCEPT
          !.root = IF r.status = "false" THEN Operator_close(r.op) ELSE r.op,
          !.trace = @ \o CASE r.status = "throw" ->
                                <<Event("next", "throw"), Event("abort", "true")>>
                           [] r.status = "false" ->
                                <<Event("next", "false"), Event("close", "true"),
                                  Event("commit", "true")>>
                           [] OTHER -> <<Event("next", "true")>>,
          !.out = IF r.status = "true" THEN Append(@, r.tuple) ELSE @,
          !.pc = IF r.status = "true" THEN "pulling" ELSE "returned",
          !.result = IF r.status = "throw" THEN set_error("Execution error")
                     ELSE [@ EXCEPT !.rows = IF r.status = "true"
                                              THEN Append(@, r.tuple) ELSE @]]
    /\ Left(r.status, Shared, plan.txn)

Pull ==
    /\ plan.pc = "pulling"
    /\ SelectPulled(Operator_next(sm, plan.root))
    /\ UNCHANGED <<stmts, notSelect>>

SelectNext == (\E root \in SelectPlans : ExecuteSelect(root)) \/ Pull

SelectSpec == SelectInit /\ [][SelectNext]_vars

\* C34: a SELECT that ends with an error after its plan was initialised has
\* had close() called on the plan root, before the implicit transaction is
\* aborted and before execute returns.
C34_ClosedOnError ==
    (plan.pc = "returned" /\ plan.result.error
       /\ \E k \in 1..Len(plan.trace) : plan.trace[k].call = "init")
    => \E c \in 1..Len(plan.trace) :
          /\ plan.trace[c].call = "close"
          /\ \A k \in 1..Len(plan.trace) : plan.trace[k].call = "abort" => c < k

(***************************************************************************)
(* INSERT with a column list: one session on the table t (c1 BIGINT,       *)
(* c2 BIGINT).  The statement's columns are the ColumnExpr parse_insert    *)
(* adds, in the order written.                                             *)
(***************************************************************************)
TwoColumns == Stmt("CreateTable", "t", <<>>, <<"BIGINT", "BIGINT">>, <<>>)

\* INSERT INTO t (columns) VALUES (row), the columns in either order
ListedInserts ==
    {Stmt("Insert", "t", <<<<make_int64(a), make_int64(b)>>>>, columns, <<>>) :
        a \in {7, 8}, b \in {7, 8},
        columns \in {<<ColumnExpr("c1"), ColumnExpr("c2")>>,
                     <<ColumnExpr("c2"), ColumnExpr("c1")>>}}

ListedStatements ==
    ListedInserts \cup {Stmt("Select", "t", <<>>, <<ColumnExpr("c1")>>, <<>>),
                        Stmt("Select", "t", <<>>, <<ColumnExpr("c2")>>, <<>>)}

InsertInit ==
    /\ Loaded(RunScript([sm |-> [disk |-> [f \in FileNames |-> NoFile],
                                 open |-> {}],
                         catalog |-> NewCatalog,
                         tm |-> NewTransactionManager,
                         locks |-> {}, versions |-> <<>>], <<TwoColumns>>))
    /\ current_txn_ = [s \in Sessions |-> 0]
    /\ errored = {}
    /\ last = NoLast
    /\ stmts = 0
    /\ index = btree_create
    /\ inserted = <<>>
    /\ reply = NoReply
    /\ oids = <<>>
    /\ parsed = NoParse
    /\ server = NewServer
    /\ conns = <<>>
    /\ threads = <<>>
    /\ plan = <<>>
    /\ schema = <<"INT64", "INT64">>
    /\ hist = <<>>
    /\ ret = NoRet
    /\ ops = 0
    /\ gen = 0

InsertNext == \E stmt \in ListedStatements : Execute("A", stmt)

InsertSpec == InsertInit /\ [][InsertNext]_vars

\* the step is an INSERT with a column list that ended without error
ListedInsertStep ==
    /\ stmts' = stmts + 1
    /\ last'.stmt.type = "Insert"
    /\ last'.stmt.columns # <<>>
    /\ ~last'.result.error

\* C38: INSERT INTO t (c1, ..., ck) VALUES (v1, ..., vk) stores vi in the
\* column named ci, in whatever order the columns are listed: the row read
\* back has vi at the place its schema gives ci.
C38_ListedColumns ==
    [][ListedInsertStep =>
          \A i \in 1..Len(last'.stmt.columns) :
             GetVersion(sm', catalog', versions'[Len(versions')]).values[
                   find_column(ColumnNames, last'.stmt.columns[i].name)]
                = last'.stmt.values[1][i]
      ]_vars

(***************************************************************************)
(* HeapTable::insert as a loop that is run to its end: the callers of      *)
(* RaceSpec, a tuple that no page can take among their tuples, and each    *)
(* thread that is inside insert takes its next step in the end.            *)
(***************************************************************************)
HugeLen == 900

\* a TEXT larger than the free space of an empty page
HugeTuple == <<make_text([i \in 1..HugeLen |-> 120])>>

LoopTuples == RaceTuples \cup {HugeTuple}

LoopNext ==
    \/ \E t \in Threads : \E tuple \in LoopTuples : InsertCall(t, tuple)
    \/ \E t \in Threads : InsertRead(t)
    \/ \E t \in Threads : InsertWrite(t)

LoopSpec ==
    /\ RaceInit
    /\ [][LoopNext]_vars
    /\ \A t \in Threads : WF_vars(InsertRead(t)) /\ WF_vars(InsertWrite(t))

\* C39: every call of HeapTable::insert comes to its end, having stored the
\* tuple or reported failure, also for a tuple larger than the free space
\* of an empty page.
C39_InsertTerminates ==
    \A t \in Threads :
       (threads.th[t].pc \in {"read", "write"}) ~> (threads.th[t].pc = "done")

(***************************************************************************)
(* drop() and create() on a table that exists: the heap-level behaviours   *)
(* on a TEXT table that was created and loaded, with drop() and a create() *)
(* on the file as it is.                                                   *)
(***************************************************************************)
BigRow == <<make_text([i \in 1..BigLen |-> 120])>>

\* the rows loaded at the start: none, one page of them, two pages
DropTables == {<<>>, <<BigRow>>, <<BigRow, BigRow, BigRow>>}

\* the table is as the load st left it
DropLoaded(st) ==
    /\ sm = st.sm
    /\ hist = st.hist

DropInit ==
    /\ \E rows \in DropTables :
          DropLoaded(InsertAll([sm |-> HeapTable_create(
                                          [disk |-> [f \in FileNames |-> NoFile],
                                           open |-> {}], T).sm,
                                status |-> "ok", tid |-> TupleId(0, 0),
                                hist |-> <<>>], rows, 0))
    /\ schema = <<"TEXT">>
    /\ ret = NoRet
    /\ ops = 0
    /\ gen = 0
    /\ catalog = NewCatalog
    /\ tm = NewTransactionManager
    /\ locks = {}
    /\ current_txn_ = [s \in Sessions |-> 0]
    /\ versions = <<>>
    /\ errored = {}
    /\ last = NoLast
    /\ stmts = 0
    /\ index = btree_create
    /\ inserted = <<>>
    /\ reply = NoReply
    /\ oids = <<>>
    /\ parsed = NoParse
    /\ server = NewServer
    /\ conns = <<>>
    /\ threads = <<>>
    /\ plan = <<>>

\* table.drop(): the file is closed
Drop ==
    /\ sm' = close_file(sm, T).sm
    /\ ret' = [NoRet EXCEPT !.op = "drop", !.ok = close_file(sm, T).ok]
    /\ UNCHANGED <<schema, hist, ops, gen>>
    /\ UNCHANGED <<execVars, indexVars, oids, parseVars, netVars, concVars>>

\* table.create() on the file as it is
Recreate ==
    /\ ops < MaxOps
    /\ sm' = HeapTable_create(sm, T).sm
    /\ ret' = [NoRet EXCEPT !.op = "create", !.ok = HeapTable_create(sm, T).ok]
    /\ ops' = ops + 1
    /\ UNCHANGED <<schema, hist, gen>>
    /\ UNCHANGED <<execVars, indexVars, oids, parseVars, netVars, concVars>>

DropNext ==
    \/ \E rows \in RowBatches(schema) : Insert(rows)
    \/ Drop
    \/ Recreate
    \/ Scan

DropSpec == DropInit /\ [][DropNext]_vars

\* C40: immediately after create() succeeded the table is empty, a scan
\* yields no tuple and tuple_count() is 0, whatever the file held before.
C40_CreateEmpties ==
    (ret.op = "create" /\ ret.ok)
    => /\ FullScan(sm, T, schema) = [status |-> "end", rows |-> <<>>]
       /\ HeapTable_tuple_count(sm, T) = 0

====
